---------------------------- MODULE Spec2Model ----------------------------
(***************************************************************************)
(* Position ledger and polling cycle of the Kalshi PGA agent.              *)
(*                                                                         *)
(* The ledger is the SQLite `positions` and `clv_tracking` tables          *)
(* (database.py) with the operations of positions.py; the orchestrator is  *)
(* main.run_cycle / main._check_positions, stepped once per early return,  *)
(* once per iteration of the market loop and once for the position check.  *)
(*                                                                         *)
(* Prices are integer cents and probabilities integer percentage points,   *)
(* so edge% = model% - ask is computed in exact arithmetic.                *)
(***************************************************************************)
EXTENDS Integers, Sequences, FiniteSets, TLC

VARIABLES
    positions,      \* rows of table positions (database.py:44-56)
    clv_tracking,   \* rows of table clv_tracking (database.py:58-69)
    now,            \* time.time(), a logical clock
    ret,            \* the latest direct positions.py call and what it returned
    requests,       \* GET /markets/{ticker} calls of the latest settlement pass
    exchange,       \* Kalshi's own state of each market (GET /markets/{ticker})
    pc,             \* where run_cycle stands: "idle" or "scan"
    dg_probs,       \* run_cycle local dg_probs: player -> model probability (%)
    markets,        \* run_cycle local markets: list of KalshiMarket
    idx,            \* position of the market loop in markets (1-based)
    round_num,      \* run_cycle local round_num (modal leaderboard round)
    scan,           \* locals of the latest market-loop iteration
    result,         \* the CycleResult of the cycle in flight / last returned
    opportunities,  \* rows of table opportunities (database.py:11-24)
    decisions,      \* rows of table decisions (database.py:26-34)
    outcomes,       \* rows of table outcomes (database.py:36-42)
    interval,       \* main's local interval: seconds slept before the next cycle
    cycle_error,    \* the cycle in flight / last run ended in main's except clause
    calc,           \* inputs and results of the latest pure-function call
    cache,          \* datagolf_client's per-cycle caches (lines 17-18)
    sched,          \* the TUI scheduler: its position, countdown and signal
    manual_positions \* table manual_positions: set of rows

vars == <<positions, clv_tracking, now, ret, requests, exchange, pc, dg_probs,
          markets, idx, round_num, scan, result, opportunities, decisions,
          outcomes, interval, cycle_error, calc, cache, sched,
          manual_positions>>
cycleVars  == <<pc, dg_probs, markets, idx, round_num, scan, result>>
storeVars  == <<opportunities, decisions, outcomes>>
loopVars   == <<interval, cycle_error>>

----------------------------------------------------------------------------
(* Bounds and domains                                                      *)

MaxTime == 1                    \* the clock runs 0..MaxTime
MaxOpps == 2                    \* rows the opportunities table may reach
MaxRows == 2                    \* rows direct calls add to decisions, outcomes

Tickers == {"T1", "T2"}
Order == <<"T1", "T2">>         \* order in which discovery lists the markets

NULL == -999                    \* SQL NULL in a numeric column

\* market_type of each ticker, as _parse_market derives it from the series
MarketTypeOf(t) == IF t = "T1" THEN "winner" ELSE "top10"
\* golfer_name of each ticker's market
GolferOf(t) == IF t = "T1" THEN "p1" ELSE "p2"
Players == {GolferOf(t) : t \in Tickers}

\* quotes a discovered market may carry (cents); discovery surfaces only
\* markets with a non-zero ask
QuotesOf(t) == IF t = "T1" THEN { [yes_ask |-> 10, yes_bid |-> 5],
                                  [yes_ask |-> 30, yes_bid |-> 25],
                                  [yes_ask |-> 30, yes_bid |-> 5] }
                           ELSE { [yes_ask |-> 10, yes_bid |-> 5] }

\* leaderboard context of a player: absent, or round and position
LbNone == [present |-> FALSE, round_number |-> 0, position |-> 0]
LbContexts == { LbNone,
                [present |-> TRUE, round_number |-> 3, position |-> 8],
                [present |-> TRUE, round_number |-> 3, position |-> 40],
                [present |-> TRUE, round_number |-> 2, position |-> 8] }

Decisions == {"BET", "PASS", "WATCH"}

\* a verdict for a market and what send_recommendation returns for it; the
\* alert is only attempted on BET, and the pipeline tests the verdict against
\* BET only, so one other verdict is drawn per market type
AgentAnswers(m) ==
    { <<"BET", TRUE>>, <<"BET", FALSE>>,
      <<IF m.market_type = "winner" THEN "PASS" ELSE "WATCH", FALSE>> }

\* what the exchange may do with a market: close it for trading before it
\* settles, and the results it may settle with
ClosesFirst(t) == t = "T1"
ResultsOf(t) == IF t = "T1" THEN {"yes", "no"} ELSE {"yes"}

\* (entry_price, entry_edge) passed to a direct open_position
OpenArgs == { <<10, 12>>, <<30, 10>> }
\* exit prices passed to a direct close_position
ExitPrices == {5, 25}

----------------------------------------------------------------------------
(* Storage layer: table positions                                          *)

PositionRow(id, ticker, player, mtype, price, edge, ts) ==
    [id |-> id, ticker |-> ticker, player_name |-> player,
     market_type |-> mtype, entry_price |-> price, entry_edge |-> edge,
     entry_timestamp |-> ts, exit_price |-> NULL, exit_timestamp |-> NULL,
     profit_loss |-> NULL, status |-> "OPEN"]

\* a constraint that holds the ticker unique among the OPEN rows only
UniqueTicker_while_open(rows, ticker) ==
    \A r \in rows : r.status = "OPEN" => r.ticker # ticker

\* ticker TEXT NOT NULL UNIQUE: an insert fails when any row, OPEN or
\* CLOSED, already holds the ticker
UniqueTicker(rows, ticker) == \A r \in rows : r.ticker # ticker

\* id INTEGER PRIMARY KEY AUTOINCREMENT; rows are never deleted
NextId(rows) == Cardinality(rows) + 1

\* open_position without the UNIQUE constraint: the INSERT always succeeds
open_position_no_unique(rows, ticker, player, mtype, price, edge, ts) ==
    [ok |-> TRUE,
     rows |-> rows \cup
              {PositionRow(NextId(rows), ticker, player, mtype, price, edge, ts)}]

\* open_position as INSERT OR REPLACE: a duplicate overwrites the stored row
open_position_replace(rows, ticker, player, mtype, price, edge, ts) ==
    [ok |-> TRUE,
     rows |-> {r \in rows : r.ticker # ticker} \cup
              {PositionRow(NextId(rows), ticker, player, mtype, price, edge, ts)}]

\* positions.open_position: INSERT, True on success, False on any exception
open_position(rows, ticker, player, mtype, price, edge, ts) ==
    IF UniqueTicker(rows, ticker)
    THEN [ok |-> TRUE,
          rows |-> rows \cup
                   {PositionRow(NextId(rows), ticker, player, mtype, price, edge, ts)}]
    ELSE [ok |-> FALSE, rows |-> rows]

\* close_position with WHERE ticker = ? only: it rewrites a CLOSED row too
close_position_any_status(rows, ticker, exit_price, ts) ==
    { IF r.ticker = ticker
      THEN [r EXCEPT !.exit_price = exit_price,
                     !.exit_timestamp = ts,
                     !.profit_loss = exit_price - r.entry_price,
                     !.status = "CLOSED"]
      ELSE r : r \in rows }

\* positions.close_position: UPDATE ... WHERE ticker = ? AND status = 'OPEN'
close_position(rows, ticker, exit_price, ts) ==
    { IF r.ticker = ticker /\ r.status = "OPEN"
      THEN [r EXCEPT !.exit_price = exit_price,
                     !.exit_timestamp = ts,
                     !.profit_loss = exit_price - r.entry_price,
                     !.status = "CLOSED"]
      ELSE r : r \in rows }

\* positions.get_open_positions: SELECT * FROM positions WHERE status = 'OPEN'
get_open_positions(rows) == {r \in rows : r.status = "OPEN"}

----------------------------------------------------------------------------
(* Storage layer: table clv_tracking                                       *)

ClvRow(id, ticker, player, mtype, price, ts) ==
    [id |-> id, ticker |-> ticker, player_name |-> player,
     market_type |-> mtype, entry_price |-> price, closing_price |-> NULL,
     clv_cents |-> NULL, settlement_price |-> NULL, outcome |-> "",
     timestamp |-> ts]

\* clv_tracking.ticker TEXT NOT NULL UNIQUE
ClvUniqueTicker(rows, ticker) == \A r \in rows : r.ticker # ticker

\* record_entry_for_clv without the UNIQUE constraint: a second row is stored
record_entry_for_clv_dup(rows, ticker, player, mtype, price, ts) ==
    rows \cup {ClvRow(NextId(rows), ticker, player, mtype, price, ts)}

\* record_entry_for_clv as INSERT OR REPLACE: a duplicate overwrites the row
record_entry_for_clv_replace(rows, ticker, player, mtype, price, ts) ==
    {r \in rows : r.ticker # ticker}
      \cup {ClvRow(NextId(rows), ticker, player, mtype, price, ts)}

\* database.record_entry_for_clv: INSERT, a duplicate ticker is swallowed
record_entry_for_clv(rows, ticker, player, mtype, price, ts) ==
    IF ClvUniqueTicker(rows, ticker)
    THEN rows \cup {ClvRow(NextId(rows), ticker, player, mtype, price, ts)}
    ELSE rows

----------------------------------------------------------------------------
\* database.update_closing_price: UPDATE ... SET closing_price = ?,
\* clv_cents = ? - entry_price WHERE ticker = ?
update_closing_price(rows, ticker, closing_price) ==
    { IF r.ticker = ticker
      THEN [r EXCEPT !.closing_price = closing_price,
                     !.clv_cents = closing_price - r.entry_price]
      ELSE r : r \in rows }

\* database.update_clv_outcome: UPDATE ... SET settlement_price = ?,
\* outcome = ? WHERE ticker = ?
update_clv_outcome(rows, ticker, settlement_price, outcome) ==
    { IF r.ticker = ticker
      THEN [r EXCEPT !.settlement_price = settlement_price,
                     !.outcome = outcome]
      ELSE r : r \in rows }

----------------------------------------------------------------------------
(* Storage layer: table manual_positions                                   *)

ManualRow(id, ticker, player, mtype, price, ts) ==
    [id |-> id, ticker |-> ticker, player_name |-> player,
     market_type |-> mtype, entry_price |-> price, entry_timestamp |-> ts,
     exit_price |-> NULL, exit_timestamp |-> NULL, profit_loss |-> NULL,
     status |-> "OPEN"]

\* database.add_manual_position: INSERT; the ticker is not unique here
add_manual_position(rows, ticker, player, mtype, price, ts) ==
    rows \cup {ManualRow(NextId(rows), ticker, player, mtype, price, ts)}

\* database.close_manual_position: the OPEN row with this id is closed at
\* 100 when won and at 0 when lost; no such row, no change
close_manual_position(rows, position_id, won, ts) ==
    { IF r.id = position_id /\ r.status = "OPEN"
      THEN LET exit_price == IF won THEN 100 ELSE 0
           IN  [r EXCEPT !.exit_price = exit_price,
                         !.exit_timestamp = ts,
                         !.profit_loss = exit_price - r.entry_price,
                         !.status = "CLOSED"]
      ELSE r : r \in rows }

----------------------------------------------------------------------------
(* Storage layer: tables opportunities, decisions, outcomes.  The rows     *)
(* keep the key columns, the ticker, the verdict, the result and the       *)
(* betting_phase column init_db adds; the other columns are write-once     *)
(* copies of the arguments.                                                *)

NoPhase == ""                   \* betting_phase = None, stored as SQL NULL

OpportunityRow(id, ticker, phase) ==
    [id |-> id, market_ticker |-> ticker, betting_phase |-> phase]

\* database.log_opportunity: INSERT, returns cur.lastrowid
log_opportunity(rows, ticker, phase) ==
    [opp_id |-> NextId(rows),
     rows |-> rows \cup {OpportunityRow(NextId(rows), ticker, phase)}]

\* opportunity_id INTEGER NOT NULL REFERENCES opportunities(id), enforced by
\* PRAGMA foreign_keys=ON (database.py:99)
ForeignKey(opps, opp_id) == \E o \in opps : o.id = opp_id

DecisionRow(id, opp_id, decision, phase) ==
    [id |-> id, opportunity_id |-> opp_id, decision |-> decision,
     betting_phase |-> phase]

\* database.log_decision: INSERT; the foreign key and the CHECK on decision
\* reject the row (the call raises) when they do not hold
log_decision(rows, opps, opp_id, decision, phase) ==
    IF ForeignKey(opps, opp_id) /\ decision \in Decisions
    THEN rows \cup {DecisionRow(NextId(rows), opp_id, decision, phase)}
    ELSE rows

OutcomeResults == {"WIN", "LOSS", "PUSH", "PENDING"}

OutcomeRow(id, opp_id, res) ==
    [id |-> id, opportunity_id |-> opp_id, result |-> res]

\* database.log_outcome: INSERT; outcomes has no UNIQUE constraint
log_outcome(rows, opps, opp_id, res) ==
    IF ForeignKey(opps, opp_id) /\ res \in OutcomeResults
    THEN rows \cup {OutcomeRow(NextId(rows), opp_id, res)}
    ELSE rows

----------------------------------------------------------------------------
(* Settlement lookups                                                      *)

\* statuses on which a position is settled
SettledStatuses == {"settled", "finalized", "closed"}

NoLookup == [t \in {} |-> "ok"]

\* The row of `todo` the loop visits next: SELECT returns rows in id order
FirstRow(todo) == CHOOSE r \in todo : \A q \in todo : r.id <= q.id

\* exit price on settlement: 100.0 if result == "yes" else 0.0
SettlementPrice(market) == IF market.result = "yes" THEN 100 ELSE 0

\* One iteration of the reconciliation: GET /markets/{ticker}; an exception
\* (ticker in fails) is swallowed and leaves the row alone
SettleOne(rows, ticker, fails, ts) ==
    IF ticker \in fails THEN rows
    ELSE IF exchange[ticker].status \in SettledStatuses
         THEN close_position(rows, ticker, SettlementPrice(exchange[ticker]), ts)
         ELSE rows

\* positions.settle_open_positions: the loop over the open positions
RECURSIVE SettleLoop(_, _, _, _)
SettleLoop(rows, todo, fails, ts) ==
    IF todo = {} THEN rows
    ELSE LET pos == FirstRow(todo)
         IN  SettleLoop(SettleOne(rows, pos.ticker, fails, ts),
                        todo \ {pos}, fails, ts)

\* the result dict of settle_open_positions
SettleResult(open, fails) ==
    LET ok == {r \in open : r.ticker \notin fails}
        settled == {r \in ok : exchange[r.ticker].status \in SettledStatuses}
    IN  [fn |-> "settle_open_positions", ticker |-> "", price |-> NULL,
         val |-> "dict",
         settled |-> Cardinality(settled),
         still_open |-> Cardinality(open) - Cardinality(settled),
         errors |-> {r.ticker : r \in open \ ok}]

RetVal(fn, ticker, price, v) ==
    [fn |-> fn, ticker |-> ticker, price |-> price, val |-> v,
     settled |-> 0, still_open |-> 0, errors |-> {}]

\* the requests a settlement pass over `tickers` issued, with their outcome
Lookups(tickers, fails) ==
    [t \in tickers |-> IF t \in fails THEN "error" ELSE "ok"]

----------------------------------------------------------------------------
(* Initial state                                                           *)

NoScan == [ticker |-> "", outcome |-> "", decision |-> "", sent |-> FALSE,
           edge |-> 0, skipped |-> ""]
NoResult == [timestamp |-> NULL, tournament_active |-> FALSE,
             alerts_sent |-> 0, positions_checked |-> NULL]
NoCalc == [stage |-> "none"]

\* _cached_book_odds = {} and _cached_skill_data = {}: book_odds maps a
\* market key to the cycle its entry was fetched in ("this", or "earlier"
\* once another cycle has begun), skill is "" while nothing is cached
NoCache == [book_odds |-> [k \in {} |-> ""], skill |-> ""]

\* the scheduler before run_polling_loop runs; `discarded` records whether
\* the latest `dm.force_scan.clear()` of line 133 found the signal raised
NoSched == [pc |-> "off", force_scan |-> FALSE, remaining |-> 0,
            next_cycle_countdown |-> 0, in_flight |-> 0, status |-> "IDLE",
            discarded |-> FALSE]

\* init_db on a new database file: the six tables are empty
InitStore ==
    /\ positions = {}
    /\ clv_tracking = {}
    /\ opportunities = {}
    /\ decisions = {}
    /\ outcomes = {}
    /\ manual_positions = {}

\* the process state before the first call
InitProcess ==
    /\ now = 0
    /\ ret = RetVal("", "", NULL, "None")
    /\ requests = NoLookup
    /\ exchange = [t \in Tickers |-> [status |-> "active", result |-> ""]]
    /\ pc = "idle"
    /\ dg_probs = <<>>
    /\ markets = <<>>
    /\ idx = 0
    /\ round_num = 0
    /\ scan = NoScan
    /\ result = NoResult
    /\ interval = NULL
    /\ cycle_error = FALSE
    /\ cache = NoCache
    /\ sched = NoSched

InitTables == InitStore /\ InitProcess

Init == InitTables /\ calc = NoCalc

----------------------------------------------------------------------------
(* The exchange: a market closes for trading, then settles yes or no.      *)
(* run_cycle reads the exchange when it discovers the markets and when it  *)
(* looks up a position that is not listed, so a move of the exchange while *)
(* a cycle is in flight acts like the same move before or after it; the    *)
(* moves are taken between cycles.                                         *)

MarketCloses(t) ==
    /\ pc = "idle"
    /\ ClosesFirst(t)
    /\ exchange[t].status = "active"
    /\ exchange' = [exchange EXCEPT ![t] = [status |-> "closed", result |-> ""]]
    /\ UNCHANGED <<positions, clv_tracking, now, ret, requests, cycleVars,
                   storeVars, loopVars, calc, cache, sched,
                   manual_positions>>

MarketSettles(t, res) ==
    /\ pc = "idle"
    /\ exchange[t].status \in {"active", "closed"}
    /\ exchange' = [exchange EXCEPT ![t] = [status |-> "settled", result |-> res]]
    /\ UNCHANGED <<positions, clv_tracking, now, ret, requests, cycleVars,
                   storeVars, loopVars, calc, cache, sched,
                   manual_positions>>

----------------------------------------------------------------------------
(* Ledger operations called directly                                       *)

OpenPosition(t, price, edge) ==
    LET r == open_position(positions, t, GolferOf(t), MarketTypeOf(t), price, edge, now)
    IN  /\ positions' = r.rows
        /\ ret' = RetVal("open_position", t, price,
                         IF r.ok THEN "True" ELSE "False")
        /\ UNCHANGED <<clv_tracking, now, requests, exchange, cycleVars,
                       storeVars, loopVars, calc, cache, sched,
                   manual_positions>>

ClosePosition(t, x) ==
    /\ positions' = close_position(positions, t, x, now)
    /\ ret' = RetVal("close_position", t, x, "None")
    /\ UNCHANGED <<clv_tracking, now, requests, exchange, cycleVars,
                   storeVars, loopVars, calc, cache, sched,
                   manual_positions>>

SettleOpenPositions(fails) ==
    LET open == get_open_positions(positions)
    IN  /\ positions' = SettleLoop(positions, open, fails, now)
        /\ ret' = SettleResult(open, fails)
        /\ UNCHANGED <<clv_tracking, now, requests, exchange, cycleVars,
                       storeVars, loopVars, calc, cache, sched,
                   manual_positions>>

Tick ==
    /\ now < MaxTime
    /\ now' = now + 1
    /\ UNCHANGED <<positions, clv_tracking, ret, requests, exchange, cycleVars,
                   storeVars, loopVars, calc, cache, sched,
                   manual_positions>>

----------------------------------------------------------------------------
(* main.run_cycle: helpers                                                 *)

MIN_EDGE_TO_EVALUATE == 8
MAX_SPREAD == 15
NO_TOURNAMENT_INTERVAL == 3600
POLL_INTERVAL_SEC == 30
PROFIT_TARGET == 15
EDGE_REVERSAL == -8
STALE_ASK == 70

NoMatch == ""

\* main.match_name: the closest name of `names`; a name that is itself in
\* `names` is its own closest match, any other name of the model has none
match_name(name, names) == IF name \in names THEN name ELSE NoMatch

\* MARKET_TYPE_TO_DG_KEY.get(market_type)
MARKET_TYPE_TO_DG_KEY(mtype) ==
    CASE mtype = "winner"   -> "win"
      [] mtype = "top5"     -> "top_5"
      [] mtype = "top10"    -> "top_10"
      [] mtype = "top20"    -> "top_20"
      [] mtype = "make_cut" -> "make_cut"
      [] OTHER              -> ""

\* dg_probs[dg_match].get(dg_key, 0)
DgGet(entry, key) == IF key \in DOMAIN entry THEN entry[key] ELSE 0

\* every round weighted alike
RoundMultiplier_flat(r) == 100

\* _ROUND_MULTIPLIERS.get(round_num, 1.0), in hundredths
RoundMultiplier(r) ==
    CASE r = 1 -> 70
      [] r = 2 -> 85
      [] r = 3 -> 100
      [] r = 4 -> 115
      [] OTHER -> 100

\* the base threshold in every round
EdgeTooLow_base(edge, r) == edge < MIN_EDGE_TO_EVALUATE

\* edge_pct < get_min_edge_for_round(MIN_EDGE_TO_EVALUATE, round_num),
\* i.e. edge < base / multiplier, cleared of the division
EdgeTooLow(edge, r) == edge * RoundMultiplier(r) < MIN_EDGE_TO_EVALUATE * 100

\* the stale-price sanity check on the leaderboard context
StaleThreshold(mtype) ==
    CASE mtype = "top5"  -> 5
      [] mtype = "top10" -> 10
      [] mtype = "top20" -> 20
      [] OTHER           -> 0

\* a check that takes the player to be inside the threshold only when
\* strictly above it on the board
StalePrice_strict(lb, m) ==
    /\ lb.present
    /\ lb.round_number >= 3
    /\ StaleThreshold(m.market_type) # 0
    /\ lb.position < StaleThreshold(m.market_type)
    /\ m.yes_ask < STALE_ASK

\* main.py:175-180: the context is there, its round is >= 3, the type has a
\* threshold, the position is within it and the ask is under 70
StalePrice(lb, m) ==
    /\ lb.present
    /\ lb.round_number >= 3
    /\ StaleThreshold(m.market_type) # 0
    /\ lb.position <= StaleThreshold(m.market_type)
    /\ m.yes_ask < STALE_ASK

Market(t, q) ==
    [ticker |-> t, golfer_name |-> GolferOf(t), market_type |-> MarketTypeOf(t),
     yes_ask |-> q.yes_ask, yes_bid |-> q.yes_bid]

\* the list discover_golf_markets returns: the markets of S, in listing order
RECURSIVE MarketList(_, _, _)
MarketList(S, q, i) ==
    IF i > Len(Order) THEN <<>>
    ELSE (IF Order[i] \in S THEN <<Market(Order[i], q[Order[i]])>> ELSE <<>>)
         \o MarketList(S, q, i + 1)

\* markets the exchange lists as open
OpenMarkets == {t \in Tickers : exchange[t].status = "active"}

\* the outcome of the filters of one loop iteration (lines 126-190), before
\* the agent is asked, for the feed dg and the modal round r
FilterWith(m, lb, dg, r) ==
    LET dg_match == match_name(m.golfer_name, DOMAIN dg)
        dg_key   == MARKET_TYPE_TO_DG_KEY(m.market_type)
        pct      == DgGet(dg[dg_match], dg_key)
        edge     == pct - m.yes_ask
    IN  IF dg_match = NoMatch THEN "no_match"
        ELSE IF dg_key = "" THEN "no_key"
        ELSE IF pct <= 0 THEN "no_prob"
        ELSE IF m.yes_ask <= 0 THEN "no_price"
        ELSE IF EdgeTooLow(edge, r) THEN "edge_too_low"
        ELSE IF m.yes_ask - m.yes_bid > MAX_SPREAD THEN "spread_too_wide"
        ELSE IF StalePrice(lb, m) THEN "stale_price"
        ELSE "evaluated"

Filter(m, lb) == FilterWith(m, lb, dg_probs, round_num)

\* edge_pct = (dg_prob - impl_prob) * 100 of a market that has a match
EdgePct(m) ==
    DgGet(dg_probs[match_name(m.golfer_name, DOMAIN dg_probs)],
          MARKET_TYPE_TO_DG_KEY(m.market_type)) - m.yes_ask

----------------------------------------------------------------------------
(* datagolf_client: the per-cycle caches                                   *)

\* a new call of run_cycle begins: what the caches still hold was fetched
\* in an earlier cycle
Aged(c) ==
    [book_odds |-> [k \in DOMAIN c.book_odds |-> "earlier"],
     skill |-> IF c.skill = "" THEN "" ELSE "earlier"]

\* a clear_cycle_cache that leaves the caches as they are
clear_cycle_cache_noop(c) == c

\* datagolf_client.clear_cycle_cache: both caches are emptied
clear_cycle_cache(c) == NoCache

\* main.py:193: dg_market_key = dg_key.replace("_", "")
DgMarketKey(dg_key) ==
    CASE dg_key = "top_5"  -> "top5"
      [] dg_key = "top_10" -> "top10"
      [] dg_key = "top_20" -> "top20"
      [] dg_key = "make_cut" -> "makecut"
      [] OTHER             -> dg_key

\* datagolf_client.get_book_odds: a cached entry is returned as it is;
\* otherwise the feed is asked and what it gives, or {} when it fails, is
\* cached under the key. `served` is the cycle the returned entry is from
get_book_odds(c, market_type) ==
    IF market_type \in DOMAIN c.book_odds
    THEN [cache |-> c, served |-> c.book_odds[market_type]]
    ELSE [cache |-> [c EXCEPT !.book_odds =
                        [k \in DOMAIN @ \cup {market_type} |->
                            IF k = market_type THEN "this" ELSE @[k]]],
          served |-> "this"]

\* datagolf_client.get_player_skill_breakdown: non-empty cached data is
\* returned as it is; otherwise the feed is asked, and its answer is cached
\* when the request succeeds (fetched), not when it fails
get_player_skill_breakdown(c, fetched) ==
    IF c.skill # ""
    THEN [cache |-> c, served |-> c.skill]
    ELSE [cache |-> IF fetched THEN [c EXCEPT !.skill = "this"] ELSE c,
          served |-> "this"]

----------------------------------------------------------------------------
(* main.run_cycle                                                          *)

\* lines 76-85: the live feed is empty, the cycle returns at once
RunCycleNoData ==
    /\ pc = "idle"
    /\ result' = [NoResult EXCEPT !.timestamp = now]
    /\ requests' = NoLookup
    /\ interval' = NO_TOURNAMENT_INTERVAL
    /\ cycle_error' = FALSE
    /\ cache' = clear_cycle_cache(Aged(cache))
    /\ UNCHANGED <<positions, clv_tracking, now, ret, exchange, pc, dg_probs,
                   markets, idx, round_num, scan, storeVars, calc, sched,
                   manual_positions>>

\* lines 87-96: probabilities but no market, the cycle returns
RunCycleNoMarkets ==
    /\ pc = "idle"
    /\ result' = [NoResult EXCEPT !.timestamp = now, !.tournament_active = TRUE]
    /\ requests' = NoLookup
    /\ interval' = POLL_INTERVAL_SEC
    /\ cycle_error' = FALSE
    /\ cache' = clear_cycle_cache(Aged(cache))
    /\ UNCHANGED <<positions, clv_tracking, now, ret, exchange, pc, dg_probs,
                   markets, idx, round_num, scan, storeVars, calc, sched,
                   manual_positions>>

\* the opportunities a cycle over the market list ml can log at most
MayLog(ml, dg, r) ==
    Cardinality({i \in DOMAIN ml : FilterWith(ml[i], LbNone, dg, r) = "evaluated"})

\* lines 76-122: both feeds return data and discovery lists the markets ml;
\* the market loop starts.  A cycle is started only if the table can take
\* the opportunities it may log.
RunCycleScan(dg, ml, r, skill) ==
    /\ pc = "idle"
    /\ dg # <<>>
    /\ ml # <<>>
    /\ Cardinality(opportunities) + MayLog(ml, dg, r) <= MaxOpps
    /\ dg_probs' = dg
    /\ markets' = ml
    /\ round_num' = r
    /\ idx' = 1
    /\ scan' = NoScan
    /\ pc' = "scan"
    /\ result' = [NoResult EXCEPT !.timestamp = now, !.tournament_active = TRUE]
    /\ requests' = NoLookup
    /\ cycle_error' = FALSE
    /\ cache' = get_player_skill_breakdown(clear_cycle_cache(Aged(cache)),
                                           skill).cache
    /\ UNCHANGED <<positions, clv_tracking, now, ret, exchange, storeVars,
                   interval, calc, sched, manual_positions>>

\* the cycle that finds the markets of S listed with the quotes q
RunCycleFetch(dg, S, q, r, skill) ==
    /\ S # {}
    /\ S \subseteq OpenMarkets
    /\ RunCycleScan(dg, MarketList(S, q, 1), r, skill)

\* a position is opened on any BET, delivered or not
OpensPosition_any_bet(decision, sent) == decision = "BET"

\* a position is opened for every evaluated market, whatever the verdict
OpensPosition_any_verdict(decision, sent) == TRUE

\* lines 290 and 309: `if decision == "BET"` ... `if sent:`
OpensPosition(decision, sent) == decision = "BET" /\ sent

\* lines 146-190: the "reason" of the entry the iteration appends to
\* result.skipped, "" when it appends none; a market below the threshold is
\* recorded only `if edge_pct > 0`
SkipReason(m, outcome) ==
    IF outcome = "edge_too_low"
    THEN (IF EdgePct(m) > 0 THEN "edge_too_low" ELSE "")
    ELSE IF outcome \in {"spread_too_wide", "stale_price"} THEN outcome
    ELSE ""

\* lines 129 and 193: the key get_book_odds is called with for a market
BookOddsKey(m) == DgMarketKey(MARKET_TYPE_TO_DG_KEY(m.market_type))

\* lines 124-320: one iteration of `for market in markets`; `delivered` is
\* what send_recommendation returns when it is called
ScanMarket(lb, decision, delivered) ==
    /\ pc = "scan"
    /\ idx <= Len(markets)
    /\ LET m       == markets[idx]
           outcome == Filter(m, lb)
           sent    == outcome = "evaluated" /\ decision = "BET" /\ delivered
           logged  == log_opportunity(opportunities, m.ticker, NoPhase)
           opened  == open_position(positions, m.ticker,
                                    match_name(m.golfer_name, DOMAIN dg_probs),
                                    m.market_type, m.yes_ask, EdgePct(m), now)
       IN  /\ scan' = [ticker |-> m.ticker, outcome |-> outcome,
                       decision |-> IF outcome = "evaluated" THEN decision ELSE "",
                       sent |-> sent,
                       edge |-> IF outcome = "evaluated" THEN EdgePct(m) ELSE 0,
                       skipped |-> SkipReason(m, outcome)]
           /\ IF outcome = "evaluated" /\ OpensPosition(decision, delivered)
              THEN /\ positions' = opened.rows
                   /\ clv_tracking' =
                        record_entry_for_clv(clv_tracking, m.ticker,
                            match_name(m.golfer_name, DOMAIN dg_probs),
                            m.market_type, m.yes_ask, now)
                   /\ result' = [result EXCEPT !.alerts_sent = @ + 1]
              ELSE UNCHANGED <<positions, clv_tracking, result>>
           /\ IF outcome = "evaluated"
              THEN /\ opportunities' = logged.rows
                   /\ decisions' = log_decision(decisions, logged.rows,
                                                logged.opp_id, decision, NoPhase)
              ELSE UNCHANGED <<opportunities, decisions>>
           /\ cache' = IF outcome = "evaluated"
                       THEN get_book_odds(cache, BookOddsKey(m)).cache
                       ELSE cache
    /\ idx' = idx + 1
    /\ UNCHANGED <<now, ret, requests, exchange, pc, dg_probs, markets,
                   round_num, outcomes, loopVars, calc, sched,
                   manual_positions>>

\* tui/scheduler.py:52-56: the phase detected from the result of a cycle that
\* found the tournament active
PhaseOf(r) == IF r = 0 THEN "PRE_TOURNAMENT" ELSE "LIVE_ROUND"

\* an except clause that logs and re-raises: the loop is left
LoopAfterError_reraise == "stopped"

\* main.py:415-417: `except Exception` logs the error, sets the interval to
\* the poll interval and falls through to the sleep; where the loop is then
LoopAfterError == "idle"

\* the unwinding of run_cycle into main's except clause
ExceptCycleError ==
    /\ pc' = LoopAfterError
    /\ interval' = POLL_INTERVAL_SEC
    /\ cycle_error' = TRUE
    /\ result' = NoResult
    /\ requests' = NoLookup
    /\ dg_probs' = <<>>
    /\ markets' = <<>>
    /\ idx' = 0
    /\ round_num' = 0
    /\ scan' = NoScan

\* a step of run_cycle raises before it changes any table: a feed or the
\* discovery at the start (after line 77 has cleared the caches), or a call
\* of the market loop or the position check
CycleRaises ==
    /\ pc \in {"idle", "scan"}
    /\ ExceptCycleError
    /\ cache' = IF pc = "idle" THEN clear_cycle_cache(Aged(cache)) ELSE cache
    /\ UNCHANGED <<positions, clv_tracking, now, ret, exchange, storeVars,
                   calc, sched, manual_positions>>

\* lines 194-253: the book odds are fetched and the opportunity is logged,
\* then evaluate_opportunity lets
\* an exception through (a reply it does not validate) or the reply lacks a
\* key main reads, before log_decision is reached
ScanMarketRaises(lb) ==
    /\ pc = "scan"
    /\ idx <= Len(markets)
    /\ Filter(markets[idx], lb) = "evaluated"
    /\ opportunities' =
         log_opportunity(opportunities, markets[idx].ticker, NoPhase).rows
    /\ cache' = get_book_odds(cache, BookOddsKey(markets[idx])).cache
    /\ ExceptCycleError
    /\ UNCHANGED <<positions, clv_tracking, now, ret, exchange, decisions,
                   outcomes, calc, sched, manual_positions>>

----------------------------------------------------------------------------
(* main._check_positions                                                   *)

\* market_by_ticker = {m.ticker: m for m in markets}: the last one wins
MarketTickers == {markets[i].ticker : i \in DOMAIN markets}
MarketByTicker(t) ==
    markets[CHOOSE i \in DOMAIN markets :
                /\ markets[i].ticker = t
                /\ \A j \in DOMAIN markets : markets[j].ticker = t => j <= i]

\* current_edge with the model probability taken as a fraction of one
\* against the price in cents
CurrentEdge_unscaled(pos, market) ==
    LET dg_match == match_name(pos.player_name, DOMAIN dg_probs)
        dg_key   == MARKET_TYPE_TO_DG_KEY(pos.market_type)
    IN  IF dg_match # NoMatch /\ dg_key # "" /\ market.yes_ask > 0
        THEN (DgGet(dg_probs[dg_match], dg_key) \div 100) - market.yes_ask
        ELSE 0

\* current_edge of lines 354-362
CurrentEdge(pos, market) ==
    LET dg_match == match_name(pos.player_name, DOMAIN dg_probs)
        dg_key   == MARKET_TYPE_TO_DG_KEY(pos.market_type)
    IN  IF dg_match # NoMatch /\ dg_key # "" /\ market.yes_ask > 0
        THEN DgGet(dg_probs[dg_match], dg_key) - market.yes_ask
        ELSE 0

\* check_exit_conditions with a strict profit target (> instead of >=)
check_exit_conditions_strict(rows, ticker, current_yes_bid, current_edge) ==
    LET open == {r \in rows : r.ticker = ticker /\ r.status = "OPEN"}
    IN  IF open = {} THEN FALSE
        ELSE LET entry_price == (CHOOSE r \in open : TRUE).entry_price
             IN  \/ current_yes_bid > entry_price + PROFIT_TARGET
                 \/ current_edge <= EDGE_REVERSAL

\* positions.check_exit_conditions
check_exit_conditions(rows, ticker, current_yes_bid, current_edge) ==
    LET open == {r \in rows : r.ticker = ticker /\ r.status = "OPEN"}
    IN  IF open = {} THEN FALSE
        ELSE LET entry_price == (CHOOSE r \in open : TRUE).entry_price
             IN  \/ current_yes_bid >= entry_price + PROFIT_TARGET
                 \/ current_edge <= EDGE_REVERSAL

\* does the loop body reach the settlement lookup for this position
Queries(pos) == pos.market_type = "winner" /\ pos.ticker \notin MarketTickers

\* one iteration of `for pos in positions` (lines 344-390)
CheckOne(rows, pos, fails, ts) ==
    IF pos.market_type # "winner" THEN rows
    ELSE IF pos.ticker \in MarketTickers
    THEN LET market == MarketByTicker(pos.ticker)
         IN  IF check_exit_conditions(rows, pos.ticker, market.yes_bid,
                                      CurrentEdge(pos, market))
             THEN close_position(rows, pos.ticker, market.yes_bid, ts)
             ELSE rows
    ELSE SettleOne(rows, pos.ticker, fails, ts)

RECURSIVE CheckLoop(_, _, _, _)
CheckLoop(rows, todo, fails, ts) ==
    IF todo = {} THEN rows
    ELSE LET pos == FirstRow(todo)
         IN  CheckLoop(CheckOne(rows, pos, fails, ts), todo \ {pos}, fails, ts)

\* lines 322-327: the loop is exhausted; step 5, then the cycle returns
CheckPositions(fails) ==
    /\ pc = "scan"
    /\ idx > Len(markets)
    /\ LET open == get_open_positions(positions)
       IN  /\ positions' = CheckLoop(positions, open, fails, now)
           /\ requests' = Lookups({r.ticker : r \in {o \in open : Queries(o)}}, fails)
           /\ result' = [result EXCEPT !.positions_checked = Cardinality(open)]
    /\ pc' = "idle"
    /\ dg_probs' = <<>>
    /\ markets' = <<>>
    /\ idx' = 0
    /\ round_num' = 0
    /\ scan' = NoScan
    /\ interval' = POLL_INTERVAL_SEC
    /\ UNCHANGED <<clv_tracking, now, ret, exchange, storeVars, cycle_error, calc, cache, sched,
                   manual_positions>>

\* the agent's answers for the market the loop is at
AnswersNow ==
    IF pc = "scan" /\ idx \in DOMAIN markets
    THEN AgentAnswers(markets[idx]) ELSE {}

\* what the feeds show in one cycle: the live probabilities of some of the
\* players, the modal round of the leaderboard, and whether the skill
\* breakdown could be fetched
Feeds ==
    { [dg |-> [p \in Players |-> [win |-> 40, top_10 |-> 40]], round |-> 3,
       skill |-> TRUE],
      [dg |-> [p \in Players |-> [win |-> 22, top_10 |-> 40]], round |-> 3,
       skill |-> TRUE],
      [dg |-> [p \in {"p1"} |-> [win |-> 40]], round |-> 1, skill |-> FALSE],
      [dg |-> [p \in {"p2"} |-> [top_10 |-> 40]], round |-> 3,
       skill |-> TRUE] }

\* the quotes of the listed markets
QuoteBoards ==
    { q \in [Tickers -> UNION {QuotesOf(t) : t \in Tickers}] :
          \A t \in Tickers : q[t] \in QuotesOf(t) }

Next ==
    \/ RunCycleNoData
    \/ RunCycleNoMarkets
    \/ \E f \in Feeds, S \in SUBSET Tickers, q \in QuoteBoards :
          RunCycleFetch(f.dg, S, q, f.round, f.skill)
    \/ \E lb \in LbContexts, a \in AnswersNow : ScanMarket(lb, a[1], a[2])
    \/ \E lb \in LbContexts : ScanMarketRaises(lb)
    \/ CycleRaises
    \/ \E fails \in SUBSET Tickers : CheckPositions(fails)
    \/ \E t \in Tickers : MarketCloses(t)
    \/ \E t \in Tickers : \E res \in ResultsOf(t) : MarketSettles(t, res)

Spec == Init /\ [][Next]_vars

\* the polling loop of main.main keeps calling run_cycle and every call runs
\* to its return; a settlement lookup that is retried for ever succeeds
CycleStep ==
    \/ RunCycleNoData
    \/ RunCycleNoMarkets
    \/ \E f \in Feeds, S \in SUBSET Tickers, q \in QuoteBoards :
          RunCycleFetch(f.dg, S, q, f.round, f.skill)
    \/ \E lb \in LbContexts, a \in AnswersNow : ScanMarket(lb, a[1], a[2])
    \/ \E fails \in SUBSET Tickers : CheckPositions(fails)

\* the cycles and the exchange when no call raises
FairNext ==
    \/ RunCycleNoData
    \/ RunCycleNoMarkets
    \/ \E f \in Feeds, S \in SUBSET Tickers, q \in QuoteBoards :
          RunCycleFetch(f.dg, S, q, f.round, f.skill)
    \/ \E lb \in LbContexts, a \in AnswersNow : ScanMarket(lb, a[1], a[2])
    \/ \E fails \in SUBSET Tickers : CheckPositions(fails)
    \/ \E t \in Tickers : MarketCloses(t)
    \/ \E t \in Tickers : \E res \in ResultsOf(t) : MarketSettles(t, res)

FairSpec ==
    /\ Init /\ [][FairNext]_vars
    /\ WF_vars(CycleStep)
    /\ SF_vars(CheckPositions({}))

\* main's loop on one feed and one quote board, with calls that may raise;
\* the loop runs until it is interrupted from the keyboard, which is left out
LoopFeed == [dg |-> [p \in Players |-> [win |-> 40, top_10 |-> 40]], round |-> 3,
             skill |-> TRUE]
LoopQuotes == [t \in Tickers |-> [yes_ask |-> 10, yes_bid |-> 5]]

LoopNext ==
    \/ RunCycleNoData
    \/ RunCycleNoMarkets
    \/ \E S \in SUBSET Tickers :
          RunCycleFetch(LoopFeed.dg, S, LoopQuotes, LoopFeed.round,
                        LoopFeed.skill)
    \/ \E a \in AnswersNow : ScanMarket(LbNone, a[1], a[2])
    \/ ScanMarketRaises(LbNone)
    \/ CycleRaises
    \/ CheckPositions({})

LoopSpec == Init /\ [][LoopNext]_vars /\ WF_vars(LoopNext)

----------------------------------------------------------------------------
(* kelly.py: stake sizing.  Probabilities and stakes are exact fractions.  *)

RECURSIVE GCD(_, _)
GCD(a, b) == IF b = 0 THEN a ELSE GCD(b, a % b)

Abs(x) == IF x < 0 THEN -x ELSE x

\* the fraction n/d, d # 0, in lowest terms with a positive denominator
Rat(n, d) ==
    LET g == GCD(Abs(n), Abs(d))
        s == IF d < 0 THEN -1 ELSE 1
    IN  [num |-> (s * n) \div g, den |-> (s * d) \div g]

RSub(x, y) == Rat(x.num * y.den - y.num * x.den, x.den * y.den)
RMul(x, y) == Rat(x.num * y.num, x.den * y.den)
RDiv(x, y) == Rat(x.num * y.den, x.den * y.num)
RLess(x, y) == x.num * y.den < y.num * x.den

\* round(x): the nearest integer, a tie going to the even one
RoundHalfEven(x) ==
    LET fl == x.num \div x.den
        tw == 2 * (x.num - fl * x.den)
    IN  IF tw < x.den THEN fl
        ELSE IF tw > x.den THEN fl + 1
        ELSE IF fl % 2 = 0 THEN fl ELSE fl + 1

\* round(x, places) for scale = 10^places
RoundTo(x, scale) == Rat(RoundHalfEven(RMul(x, Rat(scale, 1))), scale)

\* A float result: the fraction r, plus a rounding residue of sign eps that
\* is smaller than any difference of two fractions of the model
Float(r, eps) == [r |-> r, eps |-> eps]
FLess(x, y) == RLess(x.r, y.r) \/ (x.r = y.r /\ x.eps < y.eps)
FMin(x, y) == IF FLess(y, x) THEN y ELSE x

\* half Kelly instead of quarter Kelly
KELLY_FRACTION_half == Rat(1, 2)

KELLY_FRACTION == Rat(1, 4)     \* kelly_fraction: float = 0.25
MAX_STAKE_PCT == Rat(1, 20)     \* max_stake_pct: float = 0.05

\* The prices c at which lines 24-29, evaluated in IEEE-754 doubles at
\* probability c / 100.0, leave f_star a positive residue (8.6e-19 at 3 cents
\* up to 2.7e-17 at 94 cents) where the exact value is 0; at every other
\* price of 1..99 the doubles give exactly 0.0
BreakevenResidue == {3, 9, 11, 30, 77, 94}

\* the stake of the opposite side: the sign of the Kelly numerator flipped
kelly_stake_lay(probability, price_cents) ==
    IF \/ price_cents <= 0
       \/ price_cents >= 100
       \/ probability.num <= 0
       \/ ~RLess(probability, Rat(1, 1))
    THEN Float(Rat(0, 1), 0)
    ELSE LET price  == Rat(price_cents, 100)
             b      == RDiv(RSub(Rat(1, 1), price), price)
             q      == RSub(Rat(1, 1), probability)
             f_star == Float(RDiv(RSub(q, RMul(b, probability)), b), 0)
         IN  IF ~FLess(Float(Rat(0, 1), 0), f_star)
             THEN Float(Rat(0, 1), 0)
             ELSE FMin(Float(RMul(f_star.r, KELLY_FRACTION), f_star.eps),
                       Float(MAX_STAKE_PCT, 0))

\* kelly.kelly_stake(probability, price_cents) with the default
\* kelly_fraction and max_stake_pct
kelly_stake(probability, price_cents) ==
    IF \/ price_cents <= 0
       \/ price_cents >= 100
       \/ probability.num <= 0
       \/ ~RLess(probability, Rat(1, 1))
    THEN Float(Rat(0, 1), 0)
    ELSE LET price  == Rat(price_cents, 100)
             b      == RDiv(RSub(Rat(1, 1), price), price)
             q      == RSub(Rat(1, 1), probability)
             exact  == RDiv(RSub(RMul(b, probability), q), b)
             f_star == Float(exact,
                             IF exact.num = 0 /\ price_cents \in BreakevenResidue
                             THEN 1 ELSE 0)
         IN  IF ~FLess(Float(Rat(0, 1), 0), f_star)
             THEN Float(Rat(0, 1), 0)
             ELSE FMin(Float(RMul(f_star.r, KELLY_FRACTION), f_star.eps),
                       Float(MAX_STAKE_PCT, 0))

\* kelly.kelly_edge_required
kelly_edge_required(price_cents) ==
    IF price_cents <= 0 \/ price_cents >= 100 THEN Rat(0, 1)
    ELSE Rat(price_cents, 100)

\* kelly.format_stake_recommendation, the fields run_cycle passes on;
\* stake_pct is a percentage rounded to two decimals
format_stake_recommendation(probability, price_cents) ==
    LET breakeven == kelly_edge_required(price_cents)
        edge_over_breakeven ==
            RMul(RSub(probability, breakeven), Rat(100, 1))
        stake_pct == kelly_stake(probability, price_cents)
    IN  [stake_pct |-> RoundTo(RMul(stake_pct.r, Rat(100, 1)), 100),
         breakeven_prob |-> RoundTo(RMul(breakeven, Rat(100, 1)), 10),
         edge_over_breakeven |-> RoundTo(edge_over_breakeven, 10),
         is_positive_ev |-> edge_over_breakeven.num > 0]

\* Inputs of the sizing: model probabilities in percent, ask and bid prices
\* in cents, the modal round
Probs == {-5, 0, 1, 3, 10, 17, 18, 19, 20, 30, 34, 35, 50, 70, 99, 100, 105}
PriceCents == {-1, 0, 1, 3, 18, 30, 50, 99, 100, 101}
BidCents == {13, 2}
SizingRounds == {1, 4}

SizingInputs ==
    {[stage |-> "input", p |-> p, p2 |-> p2, price |-> c, bid |-> bd,
      round |-> r] :
        p \in Probs, p2 \in Probs, c \in PriceCents, bd \in BidCents,
        r \in SizingRounds}

SizingInit == InitTables /\ calc \in {i \in SizingInputs : i.p <= i.p2}

\* main.py:126-208 on one winner market quoted at (price, bid) whose golfer
\* the feed gives probability p, and kelly_stake at a second probability p2
SizeBet ==
    /\ calc.stage = "input"
    /\ LET m  == [ticker |-> "T1", golfer_name |-> "p1",
                  market_type |-> "winner",
                  yes_ask |-> calc.price, yes_bid |-> calc.bid]
           dg == [g \in {"p1"} |-> [win |-> calc.p]]
       IN  calc' = [stage |-> "sized", p |-> calc.p, p2 |-> calc.p2,
                    price |-> calc.price, bid |-> calc.bid,
                    round |-> calc.round,
                    outcome |-> FilterWith(m, LbNone, dg, calc.round),
                    edge_pct |-> calc.p - calc.price,
                    stake |-> kelly_stake(Rat(calc.p, 100), calc.price),
                    stake2 |-> kelly_stake(Rat(calc.p2, 100), calc.price),
                    kelly_rec |-> format_stake_recommendation(
                                     Rat(calc.p, 100), calc.price)]
    /\ UNCHANGED <<positions, clv_tracking, now, ret, requests, exchange,
                   cycleVars, storeVars, loopVars, cache, sched,
                   manual_positions>>

SizingSpec == SizingInit /\ [][SizeBet]_vars

----------------------------------------------------------------------------
(* edge_adjustments.py: the round-adjusted edge threshold                  *)

\* edge_adjustments.get_min_edge_for_round: base_min_edge / multiplier
get_min_edge_for_round(base_min_edge, r) ==
    RDiv(base_min_edge, Rat(RoundMultiplier(r), 100))

\* base thresholds in tenths of a point, and round numbers, those the
\* multiplier table does not list included
BaseEdges == {-80, -5, 0, 1, 25, 50, 80, 100, 150}
RoundNums == 0..5

ThresholdInit ==
    /\ InitTables
    /\ calc \in {[stage |-> "input", base |-> bs, round |-> r, round2 |-> r2] :
                   bs \in BaseEdges, r \in RoundNums, r2 \in RoundNums}

\* main.py:117: the threshold of the cycle, taken for two rounds
MinEdgeForRound ==
    /\ calc.stage = "input"
    /\ calc' = [stage |-> "threshold", base |-> calc.base,
                round |-> calc.round, round2 |-> calc.round2,
                min_edge |-> get_min_edge_for_round(Rat(calc.base, 10),
                                                    calc.round),
                min_edge2 |-> get_min_edge_for_round(Rat(calc.base, 10),
                                                     calc.round2)]
    /\ UNCHANGED <<positions, clv_tracking, now, ret, requests, exchange,
                   cycleVars, storeVars, loopVars, cache, sched,
                   manual_positions>>

ThresholdSpec == ThresholdInit /\ [][MinEdgeForRound]_vars

----------------------------------------------------------------------------
(* edge_validator.py: the confidence tier of an edge.  Probabilities are   *)
(* in percent; a book map is a function from book names to probabilities. *)

RECURSIVE SumOver(_, _)
SumOver(f, S) ==
    IF S = {} THEN 0
    ELSE LET k == CHOOSE x \in S : TRUE IN f[k] + SumOver(f, S \ {k})

\* edge_vs_pinnacle = None, edge_vs_consensus = None
NoEdge == [num |-> 0, den |-> 0]

\* the record validate_edge returns
EdgeValidation(kalshi, pinnacle, consensus, confidence, books) ==
    [edge_vs_kalshi |-> kalshi, edge_vs_pinnacle |-> pinnacle,
     edge_vs_consensus |-> consensus, confidence |-> confidence,
     books_available |-> books]

\* the consensus rule tried before the reference-book rules
validate_edge_consensus_first(dg_prob, kalshi_implied, book_odds) ==
    LET edge_vs_kalshi == Rat(dg_prob - kalshi_implied, 1)
        has_pinnacle == "pinnacle" \in DOMAIN book_odds
        edge_vs_pinnacle ==
            IF has_pinnacle THEN Rat(dg_prob - book_odds["pinnacle"], 1)
            ELSE NoEdge
        vals == {k \in DOMAIN book_odds : book_odds[k] > 0}
        edge_vs_consensus ==
            IF vals # {}
            THEN RSub(Rat(dg_prob, 1),
                      Rat(SumOver(book_odds, vals), Cardinality(vals)))
            ELSE NoEdge
        books_available == Cardinality(DOMAIN book_odds)
        confidence ==
            IF books_available = 0 THEN "medium"
            ELSE IF edge_vs_consensus # NoEdge /\ edge_vs_consensus.num < 0
                 THEN "low"
            ELSE IF /\ has_pinnacle
                    /\ ~RLess(edge_vs_pinnacle, Rat(3, 1))
                    /\ ~RLess(edge_vs_kalshi, Rat(8, 1)) THEN "high"
            ELSE IF has_pinnacle /\ edge_vs_pinnacle.num < 0 THEN "low"
            ELSE "medium"
    IN  EdgeValidation(edge_vs_kalshi, edge_vs_pinnacle, edge_vs_consensus,
                       confidence, books_available)

\* edge_validator.validate_edge
validate_edge(dg_prob, kalshi_implied, book_odds) ==
    LET edge_vs_kalshi == Rat(dg_prob - kalshi_implied, 1)
        has_pinnacle == "pinnacle" \in DOMAIN book_odds
        edge_vs_pinnacle ==
            IF has_pinnacle THEN Rat(dg_prob - book_odds["pinnacle"], 1)
            ELSE NoEdge
        vals == {k \in DOMAIN book_odds : book_odds[k] > 0}
        edge_vs_consensus ==
            IF vals # {}
            THEN RSub(Rat(dg_prob, 1),
                      Rat(SumOver(book_odds, vals), Cardinality(vals)))
            ELSE NoEdge
        books_available == Cardinality(DOMAIN book_odds)
        confidence ==
            IF books_available = 0 THEN "medium"
            ELSE IF /\ has_pinnacle
                    /\ ~RLess(edge_vs_pinnacle, Rat(3, 1))
                    /\ ~RLess(edge_vs_kalshi, Rat(8, 1)) THEN "high"
            ELSE IF has_pinnacle /\ edge_vs_pinnacle.num < 0 THEN "low"
            ELSE IF edge_vs_consensus # NoEdge /\ edge_vs_consensus.num < 0
                 THEN "low"
            ELSE "medium"
    IN  EdgeValidation(edge_vs_kalshi, edge_vs_pinnacle, edge_vs_consensus,
                       confidence, books_available)

\* Inputs of the validation: get_book_odds keeps the books that quote a
\* positive probability (datagolf_client.py:171-175)
Books == {"pinnacle", "draftkings", "fanduel"}
BookProbs == {28, 30, 42, 50}
BookMaps == UNION {[S -> BookProbs] : S \in SUBSET Books}
ModelProbs == {20, 30, 33, 40}
ImpliedProbs == {10, 25, 32, 45}

ValidationInit ==
    /\ InitTables
    /\ calc \in {[stage |-> "input", dg_prob |-> p, kalshi_implied |-> k,
                  book_odds |-> bm] :
                   p \in ModelProbs, k \in ImpliedProbs, bm \in BookMaps}

\* main.py:193-198: the validation of the matched market's edge
ValidateEdge ==
    /\ calc.stage = "input"
    /\ calc' = [stage |-> "validated", dg_prob |-> calc.dg_prob,
                kalshi_implied |-> calc.kalshi_implied,
                book_odds |-> calc.book_odds,
                validation |-> validate_edge(calc.dg_prob,
                                             calc.kalshi_implied,
                                             calc.book_odds)]
    /\ UNCHANGED <<positions, clv_tracking, now, ret, requests, exchange,
                   cycleVars, storeVars, loopVars, cache, sched,
                   manual_positions>>

ValidationSpec == ValidationInit /\ [][ValidateEdge]_vars

----------------------------------------------------------------------------
(* tournament_state.py: the phase of the tournament.  A leaderboard is a   *)
(* function from player names to [round_number, thru].                     *)

TournamentState(phase, name, r) ==
    [phase |-> phase, tournament_name |-> name, round_num |-> r]

\* rounds.count(r)
RoundCount(leaderboard, r) ==
    Cardinality({n \in DOMAIN leaderboard : leaderboard[n].round_number = r})

\* max(set(rounds), key=rounds.count): max keeps the first of the most
\* frequent rounds it meets, and a set of small integers is iterated in
\* increasing order, so the lowest of them
ModalRound(leaderboard) ==
    LET rounds == {leaderboard[n].round_number : n \in DOMAIN leaderboard}
        most   == {r \in rounds :
                     \A q \in rounds :
                       RoundCount(leaderboard, q) <= RoundCount(leaderboard, r)}
    IN  CHOOSE r \in most : \A q \in most : r <= q

\* pre-tournament data: None, or a dict with or without the
\* "_tournament_name" key and with a number of players
NoPreData == [is_dict |-> FALSE, has_name |-> FALSE, name |-> "", players |-> 0]
PreLen(pre) == pre.players + (IF pre.has_name THEN 1 ELSE 0)

\* FINISHED decided by the rounds alone, holes-through not looked at
detect_phase_finished_by_round(live, pre, leaderboard) ==
    LET tournament_name ==
            IF pre.is_dict /\ pre.has_name /\ pre.name # "" THEN pre.name
            ELSE ""
    IN  IF live /\ DOMAIN leaderboard # {}
        THEN LET modal == ModalRound(leaderboard)
                 names == DOMAIN leaderboard
             IN  IF /\ modal >= 4
                    /\ \A n \in names :
                         leaderboard[n].round_number >= 3 =>
                           leaderboard[n].round_number >= 4
                 THEN TournamentState("FINISHED", tournament_name, modal)
                 ELSE IF \E n \in names :
                           leaderboard[n].thru > 0 /\ leaderboard[n].thru < 18
                 THEN TournamentState("LIVE_ROUND", tournament_name, modal)
                 ELSE IF /\ \E n \in names :
                              leaderboard[n].round_number = modal
                         /\ \A n \in names :
                              leaderboard[n].round_number = modal =>
                                leaderboard[n].thru >= 18
                 THEN TournamentState("BETWEEN_ROUNDS", tournament_name,
                                      modal)
                 ELSE TournamentState("LIVE_ROUND", tournament_name, modal)
        ELSE IF pre.is_dict /\ PreLen(pre) > 0 /\ PreLen(pre) > 1
        THEN TournamentState("PRE_TOURNAMENT", tournament_name, 0)
        ELSE TournamentState("IDLE", tournament_name, 0)

\* tournament_state.detect_phase; `live` is the truth value of dg_live_data
detect_phase(live, pre, leaderboard) ==
    LET tournament_name ==
            IF pre.is_dict /\ pre.has_name /\ pre.name # "" THEN pre.name
            ELSE ""
    IN  IF live /\ DOMAIN leaderboard # {}
        THEN LET modal == ModalRound(leaderboard)
                 names == DOMAIN leaderboard
             IN  IF /\ modal >= 4
                    /\ \A n \in names :
                         leaderboard[n].round_number >= 3 =>
                           /\ leaderboard[n].round_number >= 4
                           /\ leaderboard[n].thru >= 18
                 THEN TournamentState("FINISHED", tournament_name, modal)
                 ELSE IF \E n \in names :
                           leaderboard[n].thru > 0 /\ leaderboard[n].thru < 18
                 THEN TournamentState("LIVE_ROUND", tournament_name, modal)
                 ELSE IF /\ \E n \in names :
                              leaderboard[n].round_number = modal
                         /\ \A n \in names :
                              leaderboard[n].round_number = modal =>
                                leaderboard[n].thru >= 18
                 THEN TournamentState("BETWEEN_ROUNDS", tournament_name,
                                      modal)
                 ELSE TournamentState("LIVE_ROUND", tournament_name, modal)
        ELSE IF pre.is_dict /\ PreLen(pre) > 0 /\ PreLen(pre) > 1
        THEN TournamentState("PRE_TOURNAMENT", tournament_name, 0)
        ELSE TournamentState("IDLE", tournament_name, 0)

\* Inputs of the detection
LbPlayers == {"A", "B", "C"}
LbEntries == [round_number : {2, 3, 4}, thru : {0, 9, 18}]
Leaderboards == UNION {[S -> LbEntries] : S \in SUBSET LbPlayers}
PreDatas ==
    {NoPreData} \cup
    {[is_dict |-> TRUE, has_name |-> h, name |-> IF h THEN "The Open" ELSE "",
      players |-> k] : h \in BOOLEAN, k \in 0..2}

PhaseInit ==
    /\ InitTables
    /\ calc \in {[stage |-> "input", live |-> l, pre |-> pd,
                  leaderboard |-> lb] :
                   l \in BOOLEAN, pd \in PreDatas, lb \in Leaderboards}

DetectPhase ==
    /\ calc.stage = "input"
    /\ calc' = [stage |-> "detected", live |-> calc.live, pre |-> calc.pre,
                leaderboard |-> calc.leaderboard,
                state |-> detect_phase(calc.live, calc.pre, calc.leaderboard)]
    /\ UNCHANGED <<positions, clv_tracking, now, ret, requests, exchange,
                   cycleVars, storeVars, loopVars, cache, sched,
                   manual_positions>>

PhaseSpec == PhaseInit /\ [][DetectPhase]_vars

----------------------------------------------------------------------------
(* tui/scheduler.py and tui/app.py: the dashboard's polling loop           *)

POLL_INTERVAL_LIVE_SEC == 30

\* a handler of the key that starts a cycle itself instead of setting the flag
OnForceScan_runs_cycle(s) ==
    [s EXCEPT !.force_scan = TRUE, !.in_flight = @ + 1]

\* app.action_force_scan: `self.dm.force_scan.set()`
OnForceScan(s) == [s EXCEPT !.force_scan = TRUE]

\* a countdown that clears the signal and keeps counting
CountdownStep_no_break(s) ==
    IF s.remaining > 1
    THEN [s EXCEPT !.force_scan = FALSE, !.remaining = @ - 1,
                   !.next_cycle_countdown = s.remaining - 1]
    ELSE [s EXCEPT !.force_scan = FALSE, !.pc = "top",
                   !.next_cycle_countdown = 0]

\* scheduler.py:134-142: one wait of the countdown comes back. With the
\* signal set, Event.wait() returns at once: the flag is cleared and the
\* loop is left; without it the wait times out after a second, and the
\* loop goes on to the next value of `remaining` or ends after the last
CountdownStep(s) ==
    IF s.force_scan
    THEN [s EXCEPT !.force_scan = FALSE, !.pc = "top",
                   !.next_cycle_countdown = 0]
    ELSE IF s.remaining > 1
    THEN [s EXCEPT !.remaining = @ - 1,
                   !.next_cycle_countdown = s.remaining - 1]
    ELSE [s EXCEPT !.pc = "top", !.next_cycle_countdown = 0]

\* app.py:163: on_mount creates the one task that runs run_polling_loop
SchedStart ==
    /\ sched.pc = "off"
    /\ sched' = [sched EXCEPT !.pc = "top"]
    /\ UNCHANGED <<positions, clv_tracking, now, ret, requests, exchange,
                   cycleVars, storeVars, loopVars, calc, cache,
                   manual_positions>>

\* scheduler.py:33-50: the status is set and run_cycle is handed to the
\* executor; the loop awaits its result
SchedBeginCycle ==
    /\ sched.pc = "top"
    /\ sched' = [sched EXCEPT !.pc = "cycle", !.status = "SCANNING",
                              !.in_flight = @ + 1]
    /\ UNCHANGED <<positions, clv_tracking, now, ret, requests, exchange,
                   cycleVars, storeVars, loopVars, calc, cache,
                   manual_positions>>

\* a loop that begins the countdown without line 133: a signal raised
\* during the cycle is still set when the first wait starts
SchedCycleRaises_keeps_signal ==
    /\ sched.pc = "cycle"
    /\ sched' = [sched EXCEPT !.pc = "countdown", !.in_flight = @ - 1,
                              !.status = IF POLL_INTERVAL_LIVE_SEC > 120
                                         THEN "WAITING" ELSE "IDLE",
                              !.discarded = FALSE,
                              !.remaining = POLL_INTERVAL_LIVE_SEC,
                              !.next_cycle_countdown = POLL_INTERVAL_LIVE_SEC]
    /\ UNCHANGED <<positions, clv_tracking, now, ret, requests, exchange,
                   cycleVars, storeVars, loopVars, calc, cache,
                   manual_positions>>

\* scheduler.py:44-50 and 121-133: the call passes on_stage and
\* betting_phase to main.run_cycle(client), which takes neither, so it
\* raises TypeError before its first statement. The except clause records
\* the error, takes the live interval, and the countdown begins with the
\* signal cleared
SchedCycleRaises ==
    /\ sched.pc = "cycle"
    /\ sched' = [sched EXCEPT !.pc = "countdown", !.in_flight = @ - 1,
                              !.status = IF POLL_INTERVAL_LIVE_SEC > 120
                                         THEN "WAITING" ELSE "IDLE",
                              !.force_scan = FALSE,
                              !.discarded = sched.force_scan,
                              !.remaining = POLL_INTERVAL_LIVE_SEC,
                              !.next_cycle_countdown = POLL_INTERVAL_LIVE_SEC]
    /\ UNCHANGED <<positions, clv_tracking, now, ret, requests, exchange,
                   cycleVars, storeVars, loopVars, calc, cache,
                   manual_positions>>

Countdown ==
    /\ sched.pc = "countdown"
    /\ sched' = CountdownStep(sched)
    /\ UNCHANGED <<positions, clv_tracking, now, ret, requests, exchange,
                   cycleVars, storeVars, loopVars, calc, cache,
                   manual_positions>>

\* the user presses the scan-now key while the dashboard runs
ForceScan ==
    /\ sched.pc # "off"
    /\ sched' = OnForceScan(sched)
    /\ UNCHANGED <<positions, clv_tracking, now, ret, requests, exchange,
                   cycleVars, storeVars, loopVars, calc, cache,
                   manual_positions>>

\* the steps of the polling task
SchedRun ==
    \/ SchedStart
    \/ SchedBeginCycle
    \/ SchedCycleRaises
    \/ Countdown

SchedNext ==
    \/ SchedRun
    \/ ForceScan

\* the event loop keeps running the polling task
SchedSpec == Init /\ [][SchedNext]_vars /\ WF_vars(SchedRun)

----------------------------------------------------------------------------
(* The aggregate reads of positions.py and database.py                     *)

\* the six stored tables
Database ==
    [positions |-> positions, clv_tracking |-> clv_tracking,
     opportunities |-> opportunities, decisions |-> decisions,
     outcomes |-> outcomes, manual_positions |-> manual_positions]

\* a read that also deletes the CLOSED positions it has counted
Select_purging(db) ==
    [db EXCEPT !.positions = {r \in @ : r.status = "OPEN"}]

\* what a read does to the database: get_db() sets two connection pragmas,
\* db.execute runs SELECT statements only, db.close() follows with no commit
Select(db) == db

Zero == Rat(0, 1)

\* positions.get_position_stats
get_position_stats(rows) ==
    LET open   == {r \in rows : r.status = "OPEN"}
        closed == {r \in rows : r.status = "CLOSED"}
        cnt    == Cardinality(closed)
        wins   == Cardinality({r \in closed : r.profit_loss > 0})
        hold   == SumOver([r \in closed |->
                              r.exit_timestamp - r.entry_timestamp], closed)
    IN  [open_count |-> Cardinality(open),
         closed_count |-> cnt,
         total_realized_pnl |-> SumOver([r \in closed |-> r.profit_loss], closed),
         win_rate |-> IF cnt > 0 THEN Rat(wins, cnt) ELSE Zero,
         avg_hold_time_minutes |-> IF cnt > 0 THEN Rat(hold, 60 * cnt) ELSE Zero]

\* the rows of `opportunities o JOIN decisions d JOIN outcomes out` with
\* d.decision = 'BET' and out.result = res
BetOutcomes(db, res) ==
    { j \in db.decisions \X db.outcomes :
        /\ j[1].decision = "BET"
        /\ j[2].result = res
        /\ j[1].opportunity_id = j[2].opportunity_id
        /\ \E o \in db.opportunities : o.id = j[1].opportunity_id }

\* database.get_accuracy_stats(), both filters left at None
get_accuracy_stats(db) ==
    LET wins   == Cardinality(BetOutcomes(db, "WIN"))
        losses == Cardinality(BetOutcomes(db, "LOSS"))
    IN  [wins |-> wins, losses |-> losses, total |-> wins + losses,
         accuracy |-> IF wins + losses > 0
                      THEN Rat(wins, wins + losses) ELSE Zero]

\* AVG(clv_cents) over the rows, rounded to one decimal; 0 for no row
AvgClv(rows) ==
    IF rows = {} THEN Zero
    ELSE RoundTo(Rat(SumOver([r \in rows |-> r.clv_cents], rows),
                     Cardinality(rows)), 10)

\* database.get_clv_stats
get_clv_stats(rows) ==
    LET scored == {r \in rows : r.clv_cents # NULL}
        total  == Cardinality(scored)
        pos    == Cardinality({r \in scored : r.clv_cents > 0})
    IN  [total_bets |-> total,
         avg_clv_cents |-> AvgClv(scored),
         positive_clv_pct |-> IF total > 0
                              THEN RoundTo(Rat(pos * 100, total), 10)
                              ELSE Zero,
         wins |-> Cardinality({r \in scored : r.outcome = "WIN"}),
         avg_clv_wins |-> AvgClv({r \in scored : r.outcome = "WIN"}),
         avg_clv_losses |-> AvgClv({r \in scored : r.outcome = "LOSS"})]

\* LEFT JOIN positions p ON p.ticker = o.market_ticker: the profit of the
\* position on the opportunity's ticker, 0 without one or while it is open
JoinedPnl(db, opp_id) ==
    LET o  == CHOOSE x \in db.opportunities : x.id = opp_id
        ps == {p \in db.positions : p.ticker = o.market_ticker}
    IN  IF ps = {} THEN 0
        ELSE LET p == CHOOSE x \in ps : TRUE
             IN  IF p.profit_loss # NULL THEN p.profit_loss ELSE 0

\* database.get_stats_by_phase: the rows are grouped by betting_phase, which
\* no caller of log_decision sets, so the one group is "UNKNOWN"
get_stats_by_phase(db) ==
    LET won  == BetOutcomes(db, "WIN")
        lost == BetOutcomes(db, "LOSS")
        all  == won \cup lost
    IN  IF all = {} THEN [ph \in {} |-> 0]
        ELSE [ph \in {"UNKNOWN"} |->
                [wins |-> Cardinality(won), losses |-> Cardinality(lost),
                 total |-> Cardinality(won) + Cardinality(lost),
                 pnl |-> SumOver([j \in all |->
                                    JoinedPnl(db, j[1].opportunity_id)], all)]]

\* database.get_recommendation_stats: `decisions d JOIN opportunities o LEFT
\* JOIN outcomes out` with d.decision = 'BET'; a decision without an outcome
\* is one row of the join
get_recommendation_stats(db) ==
    LET bets   == {d \in db.decisions :
                     /\ d.decision = "BET"
                     /\ \E o \in db.opportunities : o.id = d.opportunity_id}
        outs(d) == {x \in db.outcomes : x.opportunity_id = d.opportunity_id}
        rows(d) == IF outs(d) = {} THEN 1 ELSE Cardinality(outs(d))
        wins   == Cardinality(BetOutcomes(db, "WIN"))
        losses == Cardinality(BetOutcomes(db, "LOSS"))
    IN  [total_recommendations |-> SumOver([d \in bets |-> rows(d)], bets),
         settled |-> wins + losses, wins |-> wins, losses |-> losses,
         win_rate |-> IF wins + losses > 0
                      THEN Rat(wins, wins + losses) ELSE Zero]

\* database.get_manual_position_stats
get_manual_position_stats(rows) ==
    LET open   == {r \in rows : r.status = "OPEN"}
        closed == {r \in rows : r.status = "CLOSED"}
        cnt    == Cardinality(closed)
        wins   == Cardinality({r \in closed : r.profit_loss > 0})
    IN  [open_count |-> Cardinality(open),
         closed_count |-> cnt,
         total_realized_pnl |-> SumOver([r \in closed |-> r.profit_loss], closed),
         win_rate |-> IF cnt > 0 THEN Rat(wins, cnt) ELSE Zero,
         wins |-> wins, losses |-> cnt - wins]

\* ledgers that calls of the storage API leave behind: positions opened and
\* closed, CLV rows scored and settled, opportunities with their decisions
\* and outcomes (an opportunity may hold two outcomes), manual positions
PositionTables ==
    LET a == open_position({}, "T1", GolferOf("T1"), MarketTypeOf("T1"),
                           30, 10, 0).rows
        b == close_position(a, "T1", 60, MaxTime)
        c == open_position(b, "T2", GolferOf("T2"), MarketTypeOf("T2"),
                           10, 12, 0).rows
        d == close_position(c, "T2", 5, MaxTime)
    IN  {{}, a, b, c, d}

ClvTables ==
    LET a == record_entry_for_clv({}, "T1", GolferOf("T1"),
                                  MarketTypeOf("T1"), 30, 0)
        b == update_clv_outcome(update_closing_price(a, "T1", 45),
                                "T1", 100, "WIN")
        c == record_entry_for_clv(b, "T2", GolferOf("T2"),
                                  MarketTypeOf("T2"), 10, 0)
        d == update_clv_outcome(update_closing_price(c, "T2", 5),
                                "T2", 0, "LOSS")
    IN  {{}, a, b, d}

StoreTables ==
    LET o1 == log_opportunity({}, "T1", NoPhase).rows
        o2 == log_opportunity(o1, "T2", NoPhase).rows
        d1 == log_decision({}, o2, 1, "BET", NoPhase)
        d2 == log_decision(d1, o2, 2, "BET", NoPhase)
        dp == log_decision(d1, o2, 2, "PASS", NoPhase)
        w1 == log_outcome({}, o2, 1, "WIN")
        w2 == log_outcome(w1, o2, 2, "LOSS")
        wd == log_outcome(w1, o2, 1, "LOSS")
        T(o, d, x) == [opportunities |-> o, decisions |-> d, outcomes |-> x]
    IN  {T({}, {}, {}), T(o2, {}, {}), T(o2, d1, {}), T(o2, d2, w1),
         T(o2, d2, w2), T(o2, dp, wd)}

ManualTables ==
    LET a == add_manual_position({}, "T1", GolferOf("T1"),
                                 MarketTypeOf("T1"), 30, 0)
        b == close_manual_position(a, 1, TRUE, MaxTime)
        c == add_manual_position(b, "T1", GolferOf("T1"),
                                 MarketTypeOf("T1"), 40, 0)
        d == close_manual_position(c, 2, FALSE, MaxTime)
    IN  {{}, a, b, c, d}

ReadInit ==
    /\ InitProcess
    /\ calc = NoCalc
    /\ positions \in PositionTables
    /\ clv_tracking \in ClvTables
    /\ \E s \in StoreTables :
          /\ opportunities = s.opportunities
          /\ decisions = s.decisions
          /\ outcomes = s.outcomes
    /\ manual_positions \in ManualTables

\* one read: the database after it, and what it returns
Read(fn, value) ==
    LET db == Select(Database)
    IN  /\ positions' = db.positions
        /\ clv_tracking' = db.clv_tracking
        /\ opportunities' = db.opportunities
        /\ decisions' = db.decisions
        /\ outcomes' = db.outcomes
        /\ manual_positions' = db.manual_positions
        /\ calc' = [stage |-> "read", fn |-> fn, value |-> value]
        /\ UNCHANGED <<now, ret, requests, exchange, cycleVars, loopVars,
                       cache, sched>>

GetOpenPositions ==
    Read("get_open_positions", get_open_positions(positions))

GetPositionStats ==
    Read("get_position_stats", get_position_stats(positions))

GetAccuracyStats ==
    Read("get_accuracy_stats", get_accuracy_stats(Database))

GetClvStats ==
    Read("get_clv_stats", get_clv_stats(clv_tracking))

GetStatsByPhase ==
    Read("get_stats_by_phase", get_stats_by_phase(Database))

GetRecommendationStats ==
    Read("get_recommendation_stats", get_recommendation_stats(Database))

GetManualPositionStats ==
    Read("get_manual_position_stats",
         get_manual_position_stats(manual_positions))

ReadNext ==
    \/ GetOpenPositions
    \/ GetPositionStats
    \/ GetAccuracyStats
    \/ GetClvStats
    \/ GetStatsByPhase
    \/ GetRecommendationStats
    \/ GetManualPositionStats

ReadSpec == ReadInit /\ [][ReadNext]_vars

----------------------------------------------------------------------------
(* The market loop on one market of each type, for the stale-price check   *)

\* one ticker per market type _parse_market knows
BoardTickers == {"T1", "T2", "T3", "T4", "T5"}
BoardTypeOf(t) ==
    CASE t = "T1" -> "winner"
      [] t = "T2" -> "top10"
      [] t = "T3" -> "top5"
      [] t = "T4" -> "top20"
      [] t = "T5" -> "make_cut"

\* asks on either side of the 70 cent mark, the bid 5 below
BoardAsks == {69, 70}
BoardMarket(t, ask) ==
    [ticker |-> t, golfer_name |-> "p1", market_type |-> BoardTypeOf(t),
     yes_ask |-> ask, yes_bid |-> ask - 5]

\* a feed that gives the player 90% in every market, so that every quote
\* passes the edge filter
BoardFeed ==
    [p \in {"p1"} |-> [win |-> 90, top_5 |-> 90, top_10 |-> 90,
                       top_20 |-> 90, make_cut |-> 90]]

\* leaderboard contexts: none; round 2 at a position within every threshold;
\* round 3 at a position on either side of each threshold; round 4 within
\* every threshold, beyond every threshold and at 999 (what get_leaderboard
\* gives an unparsable position)
BoardLbContexts ==
    {LbNone}
      \cup [present : {TRUE}, round_number : {2}, position : {5}]
      \cup [present : {TRUE}, round_number : {3},
            position : {5, 6, 10, 11, 20, 21}]
      \cup [present : {TRUE}, round_number : {4}, position : {5, 21, 999}]

BoardNext ==
    \/ \E t \in BoardTickers, ask \in BoardAsks :
          RunCycleScan(BoardFeed, <<BoardMarket(t, ask)>>, 3, TRUE)
    \/ \E lb \in BoardLbContexts, a \in AnswersNow : ScanMarket(lb, a[1], a[2])
    \/ CheckPositions({})

BoardSpec == Init /\ [][BoardNext]_vars

----------------------------------------------------------------------------
(* tournament_state.get_poll_interval and the interval main's loop sleeps: *)
(* the cycles of main.main on a feed whose leaderboard is calc.leaderboard *)

POLL_INTERVAL_PRE_TOURNAMENT_SEC == 1800
POLL_INTERVAL_BETWEEN_ROUNDS_SEC == 1800
POLL_INTERVAL_IDLE_SEC == 3600

\* tournament_state.get_poll_interval
get_poll_interval(phase) ==
    CASE phase = "LIVE_ROUND"     -> POLL_INTERVAL_LIVE_SEC
      [] phase = "PRE_TOURNAMENT" -> POLL_INTERVAL_PRE_TOURNAMENT_SEC
      [] phase = "BETWEEN_ROUNDS" -> POLL_INTERVAL_BETWEEN_ROUNDS_SEC
      [] phase = "FINISHED"       -> POLL_INTERVAL_IDLE_SEC
      [] phase = "IDLE"           -> POLL_INTERVAL_IDLE_SEC
      [] OTHER                    -> POLL_INTERVAL_IDLE_SEC

\* main.py:110-114: the round of the cycle, 3 without a leaderboard
CycleRound(leaderboard) ==
    IF DOMAIN leaderboard = {} THEN 3 ELSE ModalRound(leaderboard)

\* the feeds of a behaviour: live probabilities or none, pre-tournament data
\* absent or naming the event with at most one player, a leaderboard of up
\* to two players
IntervalInit ==
    /\ InitTables
    /\ calc \in {[stage |-> "input", live |-> l, pre |-> pd,
                  leaderboard |-> lb] :
                   l \in BOOLEAN,
                   pd \in {pre \in PreDatas : pre.has_name = pre.is_dict
                                               /\ pre.players <= 1},
                   lb \in {b \in Leaderboards : DOMAIN b \subseteq {"A", "B"}}}

\* the cycles the feeds of calc allow, none of whose calls raises; the
\* players of the leaderboard are not those of the listed markets, so the
\* market loop finds no leaderboard context
IntervalNext ==
    \/ ~calc.live /\ RunCycleNoData
    \/ calc.live /\ RunCycleNoMarkets
    \/ /\ calc.live
       /\ RunCycleFetch(LoopFeed.dg, {"T1"}, LoopQuotes,
                        CycleRound(calc.leaderboard), LoopFeed.skill)
    \/ \E a \in AnswersNow : ScanMarket(LbNone, a[1], a[2])
    \/ CheckPositions({})

IntervalSpec == IntervalInit /\ [][IntervalNext]_vars

----------------------------------------------------------------------------
(* agent.py: the evaluation of one opportunity.  A response of the        *)
(* transport is a record: transport "failed" (requests raised: no          *)
(* connection, an HTTP error status, a body that is not JSON) or "ok";     *)
(* content "missing" (no "content" key), "empty" ([]) or "text"; the text  *)
(* "prose" (not JSON), "list" (a JSON list) or "object" with the fields    *)
(* decision ("" when absent), confidence and stake ("absent", "number" or  *)
(* "word", a string that is no number).                                    *)

Verdicts == {"BET", "PASS", "WATCH"}
FALLBACK_EDGE == 15

\* the numbers a reply's confidence and suggested_stake_pct fields hold
ReplyConfidence == Rat(4, 5)
ReplyStake == Rat(3, 1)

Returned(decision, confidence, stake) ==
    [raised |-> "", decision |-> decision, confidence |-> confidence,
     suggested_stake_pct |-> stake]
Raised(exception) ==
    [raised |-> exception, decision |-> "", confidence |-> Zero,
     suggested_stake_pct |-> Zero]

\* agent._fallback_decision
_fallback_decision(edge_pct) ==
    IF Abs(edge_pct) >= FALLBACK_EDGE
    THEN Returned("BET", Rat(1, 2), Rat(1, 1))
    ELSE Returned("WATCH", Rat(3, 10), Zero)

\* the stake line 183 alone: the reply's own suggestion whatever kelly_rec
\* says
evaluate_opportunity_own_stake(edge_pct, kelly_rec, resp) ==
    IF resp.transport = "failed" THEN _fallback_decision(edge_pct)
    ELSE IF resp.content = "missing" THEN Raised("UnboundLocalError")
    ELSE IF resp.content = "empty" THEN Raised("IndexError")
    ELSE IF resp.text = "prose" THEN _fallback_decision(edge_pct)
    ELSE IF resp.text = "list" THEN Raised("TypeError")
    ELSE IF resp.decision = "" THEN _fallback_decision(edge_pct)
    ELSE IF resp.decision \notin Verdicts THEN _fallback_decision(edge_pct)
    ELSE IF resp.confidence = "word" THEN Raised("ValueError")
    ELSE LET confidence == IF resp.confidence = "absent" THEN Rat(1, 2)
                           ELSE ReplyConfidence
         IN  IF resp.stake = "word" THEN Raised("ValueError")
             ELSE Returned(resp.decision, confidence,
                           IF resp.stake = "absent" THEN Zero
                           ELSE ReplyStake)

\* agent.evaluate_opportunity from the API call on (lines 143-187)
evaluate_opportunity(edge_pct, kelly_rec, resp) ==
    \* 144-164: requests.RequestException
    IF resp.transport = "failed" THEN _fallback_decision(edge_pct)
    \* 168: KeyError, and the handler's text[:200] reads a name never bound
    ELSE IF resp.content = "missing" THEN Raised("UnboundLocalError")
    \* 168: IndexError is not among the handled exceptions
    ELSE IF resp.content = "empty" THEN Raised("IndexError")
    \* 174: json.JSONDecodeError
    ELSE IF resp.text = "prose" THEN _fallback_decision(edge_pct)
    \* 177: a list indexed with a string
    ELSE IF resp.text = "list" THEN Raised("TypeError")
    \* 177: KeyError
    ELSE IF resp.decision = "" THEN _fallback_decision(edge_pct)
    \* 177: AssertionError
    ELSE IF resp.decision \notin Verdicts THEN _fallback_decision(edge_pct)
    \* 178: float() of a string that is no number
    ELSE IF resp.confidence = "word" THEN Raised("ValueError")
    ELSE LET confidence == IF resp.confidence = "absent" THEN Rat(1, 2)
                           ELSE ReplyConfidence
         IN  \* 180-183
             IF kelly_rec.is_positive_ev
             THEN Returned(resp.decision, confidence, kelly_rec.stake_pct)
             ELSE IF resp.stake = "word" THEN Raised("ValueError")
             ELSE Returned(resp.decision, confidence,
                           IF resp.stake = "absent" THEN Zero
                           ELSE ReplyStake)

\* the responses of the transport
NoReply == [transport |-> "failed", content |-> "", text |-> "",
            decision |-> "", confidence |-> "absent", stake |-> "absent"]
Responses ==
    { NoReply }
      \cup { [NoReply EXCEPT !.transport = "ok", !.content = c] :
               c \in {"missing", "empty"} }
      \cup { [NoReply EXCEPT !.transport = "ok", !.content = "text",
                             !.text = t] : t \in {"prose", "list"} }
      \cup [transport : {"ok"}, content : {"text"}, text : {"object"},
            decision : {"", "HOLD"} \cup Verdicts,
            confidence : {"absent", "number", "word"},
            stake : {"absent", "number", "word"}]

\* model probability in percent and ask in cents of the market evaluated:
\* edges of 20, 15, 14, 10 and 0 points, an edge of -20, and a probability
\* of 1 asked at 50
AgentMarkets ==
    { <<30, 10>>, <<25, 10>>, <<24, 10>>, <<20, 10>>, <<10, 10>>,
      <<10, 30>>, <<100, 50>> }

AgentInit ==
    /\ InitTables
    /\ calc \in {[stage |-> "input", p |-> pa[1], price |-> pa[2],
                  resp |-> r] : pa \in AgentMarkets, r \in Responses}

\* main.py:143, 208 and 229-248: the edge, the Kelly recommendation, the
\* call of evaluate_opportunity on the response the transport gives, and the
\* columns log_decision is given (none when the call raised)
EvaluateOpportunity ==
    /\ calc.stage = "input"
    /\ LET edge_pct    == calc.p - calc.price
           kelly_rec   == format_stake_recommendation(Rat(calc.p, 100),
                                                      calc.price)
           eval_result == evaluate_opportunity(edge_pct, kelly_rec, calc.resp)
       IN  calc' = [stage |-> "evaluated", p |-> calc.p,
                    price |-> calc.price, resp |-> calc.resp,
                    edge_pct |-> edge_pct, kelly_rec |-> kelly_rec,
                    eval_result |-> eval_result,
                    logged |->
                      IF eval_result.raised # "" THEN {}
                      ELSE {[decision |-> eval_result.decision,
                             confidence |-> eval_result.confidence,
                             suggested_stake_pct |->
                               eval_result.suggested_stake_pct]}]
    /\ UNCHANGED <<positions, clv_tracking, now, ret, requests, exchange,
                   cycleVars, storeVars, loopVars, cache, sched,
                   manual_positions>>

AgentSpec == AgentInit /\ [][EvaluateOpportunity]_vars

----------------------------------------------------------------------------
(* kalshi_client.KalshiClient.discover_golf_markets: the requests of one   *)
(* market discovery.  calc holds the loop's position (series, attempt),    *)
(* the requests made per series, the last response and the sleep after     *)
(* it, the series whose markets were appended and those left without data. *)

GOLF_SERIES == <<"KXPGATOUR", "KXPGA", "KXPGATOP5", "KXPGATOP10",
                 "KXPGATOP20", "KXPGACUT">>
ATTEMPTS == 3

\* what a GET /events gives: the events of the series, HTTP 429, another
\* HTTP error status, or any other exception (no connection, a timeout)
EventResponses == {"listed", "429", "http_error", "error"}

\* a wait of one second before every retry
Backoff_constant(attempt) == 1

\* line 78: wait = 2 ** attempt
Backoff(attempt) == 2 ^ attempt

\* every failed request is tried again
Retried_any_failure(response) == response # "listed"

\* lines 76-86: only an HTTPError with status 429 lets the attempts go on
Retried(response) == response = "429"

NoDiscovery ==
    [stage |-> "discover", series |-> 1, attempt |-> 0,
     requested |-> [i \in DOMAIN GOLF_SERIES |-> 0],
     last |-> "", wait |-> 0, markets |-> <<>>, no_data |-> {}]

DiscoveryInit == InitTables /\ calc = NoDiscovery

\* one pass of the attempt loop (lines 67-86) on the series the outer loop
\* is at, and, when the attempts end, lines 88-114 for that series
DiscoverRequest(response) ==
    /\ calc.stage = "discover"
    /\ LET i     == calc.series
           again == Retried(response) /\ calc.attempt + 1 < ATTEMPTS
           done  == ~again /\ i = Len(GOLF_SERIES)
       IN  calc' =
             [stage |-> IF done THEN "returned" ELSE "discover",
              series |-> IF again THEN i ELSE i + 1,
              attempt |-> IF again THEN calc.attempt + 1 ELSE 0,
              requested |-> [calc.requested EXCEPT ![i] = @ + 1],
              last |-> response,
              wait |-> IF Retried(response) THEN Backoff(calc.attempt) ELSE 0,
              markets |-> IF response = "listed"
                          THEN Append(calc.markets, GOLF_SERIES[i])
                          ELSE calc.markets,
              no_data |-> IF response # "listed" /\ ~again
                          THEN calc.no_data \cup {i} ELSE calc.no_data]
    /\ UNCHANGED <<positions, clv_tracking, now, ret, requests, exchange,
                   cycleVars, storeVars, loopVars, cache, sched,
                   manual_positions>>

DiscoveryNext == \E response \in EventResponses : DiscoverRequest(response)

DiscoverySpec == DiscoveryInit /\ [][DiscoveryNext]_vars

----------------------------------------------------------------------------
(* datagolf_client._fetch_raw and get_live_probabilities: what the live    *)
(* feed gives a cycle.  A payload is the outcome of the GET:               *)
(*   "request_failed"  requests raised (timeout, HTTP error status)        *)
(*   "empty"           a body that is falsy: {}, [] or null                *)
(*   "no_list"         an object whose "data" is not a list                *)
(*   "scalar"          a body that is a JSON string or number              *)
(*   "nameless"        players none of whom has a player_name              *)
(*   "finished"        every player of rounds 3+ in round 4 through 18     *)
(*   "players"         players with probabilities                          *)

Payloads == {"request_failed", "empty", "no_list", "scalar", "nameless",
             "finished", "players"}

\* datagolf_client._fetch_raw: the raw players ("" for an empty list), or
\* the exception it lets through
fetch_raw(payload) ==
    \* 37-40: requests.RequestException
    IF payload = "request_failed" THEN [raised |-> "", players |-> ""]
    \* 42-45
    ELSE IF payload = "empty" THEN [raised |-> "", players |-> ""]
    \* 47: data.get on a str or a number
    ELSE IF payload = "scalar"
    THEN [raised |-> "AttributeError", players |-> ""]
    \* 48-51
    ELSE IF payload = "no_list" THEN [raised |-> "", players |-> ""]
    ELSE [raised |-> "", players |-> payload]

\* datagolf_client.get_live_probabilities: the probabilities by player
get_live_probabilities(payload) ==
    LET raw == fetch_raw(payload)
    IN  IF raw.raised # "" THEN [raised |-> raw.raised, probs |-> <<>>]
        ELSE IF raw.players = "" THEN [raised |-> "", probs |-> <<>>]
        \* 68-79
        ELSE IF raw.players = "finished" THEN [raised |-> "", probs |-> <<>>]
        \* 82-85: every entry is passed over
        ELSE IF raw.players = "nameless" THEN [raised |-> "", probs |-> <<>>]
        ELSE [raised |-> "", probs |-> LoopFeed.dg]

FeedInit ==
    /\ InitTables
    /\ calc \in {[stage |-> "feed", payload |-> k] : k \in Payloads}

\* between two cycles the feed comes to give another payload
FeedChanges ==
    /\ pc = "idle"
    /\ \E k \in Payloads \ {calc.payload} :
          calc' = [stage |-> "feed", payload |-> k]
    /\ UNCHANGED <<positions, clv_tracking, now, ret, requests, exchange,
                   cycleVars, storeVars, loopVars, cache, sched,
                   manual_positions>>

\* the cycles of main's loop on the payload of calc: line 81 raises, returns
\* nothing or returns the probabilities of the players
FeedNext ==
    \/ FeedChanges
    \/ /\ pc = "idle"
       /\ get_live_probabilities(calc.payload).raised # ""
       /\ CycleRaises
    \/ /\ get_live_probabilities(calc.payload) = [raised |-> "", probs |-> <<>>]
       /\ RunCycleNoData
    \/ /\ get_live_probabilities(calc.payload).probs # <<>>
       /\ RunCycleNoMarkets
    \/ /\ get_live_probabilities(calc.payload).probs # <<>>
       /\ RunCycleFetch(get_live_probabilities(calc.payload).probs, {"T1"},
                        LoopQuotes, LoopFeed.round, LoopFeed.skill)
    \/ \E a \in AnswersNow : ScanMarket(LbNone, a[1], a[2])
    \/ CheckPositions({})

FeedSpec == FeedInit /\ [][FeedNext]_vars

----------------------------------------------------------------------------
(* alerts.send_alert: the per-ticker cooldown of recommendation alerts     *)

\* config.py:17, minutes
ALERT_COOLDOWN_MIN == 30

\* what a call of send_telegram meets: no token or chat id configured, a
\* reply with status 200, a reply with another status, an exception of the
\* POST
TelegramOutcomes == {"unconfigured", "200", "rejected", "error"}

\* alerts.send_telegram: True only on a reply with status 200
send_telegram(outcome) == outcome = "200"

\* datetime.now() of the calls of send_alert, in minutes
AlertTimes == {0, 10, 20, 30, 40}

\* send_alert that posts whatever the cooldowns hold
send_alert_no_cooldown(cooldowns, ticker, at, outcome) ==
    [sent |-> send_telegram(outcome), posted |-> TRUE,
     cooldowns |-> IF send_telegram(outcome)
                   THEN (ticker :> at) @@ cooldowns ELSE cooldowns]

\* alerts.send_alert on the module's _alert_cooldowns (ticker -> time of
\* the latest delivery): False without a POST while the ticker's cooldown
\* runs, else the result of send_telegram, whose success stamps the ticker
send_alert(cooldowns, ticker, at, outcome) ==
    IF ticker \in DOMAIN cooldowns
       /\ at - cooldowns[ticker] < ALERT_COOLDOWN_MIN
    THEN [sent |-> FALSE, posted |-> FALSE, cooldowns |-> cooldowns]
    ELSE [sent |-> send_telegram(outcome), posted |-> TRUE,
          cooldowns |-> IF send_telegram(outcome)
                        THEN (ticker :> at) @@ cooldowns ELSE cooldowns]

\* alerts.py:10: no cooldown is stored when the module is imported; `last`
\* keeps, for each ticker, when Telegram last accepted an alert for it
AlertInit ==
    /\ InitTables
    /\ calc = [stage |-> "alert", clock |-> 0, _alert_cooldowns |-> <<>>,
               last |-> <<>>, ticker |-> "", sent |-> FALSE, posted |-> FALSE]

\* time passes between two recommendations
AlertTick ==
    /\ \E c \in AlertTimes :
          /\ c > calc.clock
          /\ calc' = [calc EXCEPT !.clock = c, !.ticker = "", !.sent = FALSE,
                                  !.posted = FALSE]
    /\ UNCHANGED <<positions, clv_tracking, now, ret, requests, exchange,
                   cycleVars, storeVars, loopVars, cache, sched,
                   manual_positions>>

\* main.py:290-320 for a BET decision on ticker t: send_recommendation ends
\* in send_alert(market_ticker, message), and `if sent:` opens the position
\* and records the entry
Recommend(t, price, outcome) ==
    LET r == send_alert(calc._alert_cooldowns, t, calc.clock, outcome)
    IN  /\ calc' = [calc EXCEPT !._alert_cooldowns = r.cooldowns,
                        !.last = IF r.posted /\ send_telegram(outcome)
                                 THEN (t :> calc.clock) @@ @ ELSE @,
                        !.ticker = t, !.sent = r.sent, !.posted = r.posted]
        /\ IF r.sent
           THEN /\ positions' = open_position(positions, t, GolferOf(t),
                                    MarketTypeOf(t), price, 20, now).rows
                /\ clv_tracking' = record_entry_for_clv(clv_tracking, t,
                                    GolferOf(t), MarketTypeOf(t), price, now)
           ELSE UNCHANGED <<positions, clv_tracking>>
        /\ UNCHANGED <<now, ret, requests, exchange, cycleVars, storeVars,
                       loopVars, cache, sched, manual_positions>>

AlertNext ==
    \/ AlertTick
    \/ \E t \in Tickers, o \in TelegramOutcomes :
          \E q \in QuotesOf(t) : Recommend(t, q.yes_ask, o)

AlertSpec == AlertInit /\ [][AlertNext]_vars

----------------------------------------------------------------------------
(* main.run_cycle: the positions a cycle opens and its own exit check      *)

\* main.py:402-425: the loop sleeps between two calls of run_cycle, so the
\* clock moves while no cycle runs
ExitTick == pc = "idle" /\ Tick

\* a call of run_cycle begins later than every stored entry_timestamp: the
\* rows stamped with the present time are the ones this cycle opens
CycleBegins(dg, S, q, r, skill) ==
    /\ \A p \in positions : p.entry_timestamp < now
    /\ RunCycleFetch(dg, S, q, r, skill)

ExitNext ==
    \/ ExitTick
    \/ \E f \in Feeds, S \in SUBSET Tickers, q \in QuoteBoards :
          CycleBegins(f.dg, S, q, f.round, f.skill)
    \/ \E lb \in LbContexts, a \in AnswersNow : ScanMarket(lb, a[1], a[2])
    \/ \E fails \in SUBSET Tickers : CheckPositions(fails)

ExitSpec == Init /\ [][ExitNext]_vars

\* Direct calls of the storage API (database.py), as a results importer or
\* an operator's shell makes them; ids range one past the stored ones
OppIds == 1..(MaxOpps + 1)

LogOpportunity(t) ==
    /\ Cardinality(opportunities) < MaxOpps
    /\ opportunities' = log_opportunity(opportunities, t, NoPhase).rows
    /\ UNCHANGED <<positions, clv_tracking, now, ret, requests, exchange,
                   cycleVars, decisions, outcomes, loopVars, calc, cache, sched,
                   manual_positions>>

LogDecision(opp_id, decision) ==
    /\ Cardinality(decisions) < MaxRows
    /\ decisions' = log_decision(decisions, opportunities, opp_id, decision,
                                 NoPhase)
    /\ UNCHANGED <<positions, clv_tracking, now, ret, requests, exchange,
                   cycleVars, opportunities, outcomes, loopVars, calc, cache, sched,
                   manual_positions>>

LogOutcome(opp_id, res) ==
    /\ Cardinality(outcomes) < MaxRows
    /\ outcomes' = log_outcome(outcomes, opportunities, opp_id, res)
    /\ UNCHANGED <<positions, clv_tracking, now, ret, requests, exchange,
                   cycleVars, opportunities, decisions, loopVars, calc, cache, sched,
                   manual_positions>>

StoreNext ==
    \/ \E t \in Tickers : LogOpportunity(t)
    \/ \E i \in OppIds, d \in Decisions : LogDecision(i, d)
    \/ \E i \in OppIds, res \in OutcomeResults : LogOutcome(i, res)

StoreSpec == Init /\ [][StoreNext]_vars

LedgerNext ==
    \/ \E t \in Tickers, a \in OpenArgs : OpenPosition(t, a[1], a[2])
    \/ \E t \in Tickers, x \in ExitPrices : ClosePosition(t, x)
    \/ \E fails \in SUBSET Tickers : SettleOpenPositions(fails)
    \/ \E t \in Tickers : MarketCloses(t)
    \/ \E t \in Tickers : \E res \in ResultsOf(t) : MarketSettles(t, res)
    \/ Tick

LedgerSpec == Init /\ [][LedgerNext]_vars

----------------------------------------------------------------------------
(* Properties of the ledger                                                *)

RowsOf(rows, t) == {r \in rows : r.ticker = t}
OpenRowsOf(rows, t) == {r \in rows : r.ticker = t /\ r.status = "OPEN"}

\* C1: in every reachable state of the ledger there is at most one position
\* with status OPEN for each ticker, whatever open, close and settlement
\* calls were made and however often an open was repeated.
C1_AtMostOneOpenPerTicker ==
    \A t \in Tickers : Cardinality(OpenRowsOf(positions, t)) <= 1

\* a repeated open_position on a ticker was rejected while its position is OPEN
C1_Witness ==
    /\ ret.fn = "open_position"
    /\ ret.val = "False"
    /\ OpenRowsOf(positions, ret.ticker) # {}

\* C2: close_position(t, x) on an OPEN position sets status CLOSED, exit
\* price x, exit timestamp now and profit x - entry_price; on a ticker whose
\* position is already CLOSED, or that has no position, it changes no row.
C2_CloseOnceThenNoOp ==
    [][\A t \in Tickers, x \in ExitPrices :
         ClosePosition(t, x) =>
           /\ Cardinality(positions') = Cardinality(positions)
           /\ \A r \in positions :
                IF r.ticker = t /\ r.status = "OPEN"
                THEN \E c \in positions' :
                       /\ c.id = r.id
                       /\ c.status = "CLOSED"
                       /\ c.exit_price = x
                       /\ c.exit_timestamp = now
                       /\ c.profit_loss = x - r.entry_price
                       /\ c.entry_price = r.entry_price
                       /\ c.entry_edge = r.entry_edge
                       /\ c.entry_timestamp = r.entry_timestamp
                ELSE r \in positions'
      ]_vars

\* a close_position(t, y) arrived after the position had been closed at
\* another price at an earlier time, and the row still shows the first close
C2_Witness ==
    /\ ret.fn = "close_position"
    /\ \E r \in positions :
         /\ r.ticker = ret.ticker
         /\ r.status = "CLOSED"
         /\ r.exit_price # ret.price
         /\ r.exit_timestamp < now
         /\ r.profit_loss = r.exit_price - r.entry_price

\* C4: open_position on a ticker that already has an OPEN position returns
\* False and leaves every stored row unchanged.
C4_DuplicateOpenIsNoOp ==
    [][\A t \in Tickers, a \in OpenArgs :
         (OpenPosition(t, a[1], a[2]) /\ OpenRowsOf(positions, t) # {}) =>
           /\ ret'.val = "False"
           /\ positions' = positions
           /\ clv_tracking' = clv_tracking
      ]_vars

\* a duplicate open at another price was rejected some time after the
\* position was opened, while another ticker holds a row as well
C4_Witness ==
    /\ ret.fn = "open_position"
    /\ ret.val = "False"
    /\ \E r \in positions :
         /\ r.ticker = ret.ticker
         /\ r.status = "OPEN"
         /\ r.entry_price # ret.price
         /\ r.entry_timestamp < now
    /\ \E r \in positions : r.ticker # ret.ticker

----------------------------------------------------------------------------
(* Properties of the polling cycle                                         *)

\* a step of the market loop, and the step that runs the position check
ScanStep == pc = "scan" /\ pc' = "scan" /\ idx' = idx + 1
CheckStep == pc = "scan" /\ pc' = "idle" /\ ~cycle_error'

\* C3: per ticker the status only moves (none) -> OPEN -> CLOSED; a CLOSED
\* row is never altered and its ticker never gets an OPEN position again.
C3_ClosedIsTerminal ==
    [][/\ \A r \in positions :
            r.status = "CLOSED" => RowsOf(positions', r.ticker) = {r}
       /\ \A r \in positions :
            r.status = "OPEN" => \E c \in RowsOf(positions', r.ticker) :
                                    c.id = r.id /\ (c = r \/ c.status = "CLOSED")
       /\ \A c \in positions' :
            RowsOf(positions, c.ticker) = {} => c.status = "OPEN"
      ]_vars

\* a BET alert was delivered for a ticker whose position is CLOSED
C3_Witness ==
    /\ pc = "scan"
    /\ scan.sent
    /\ \E r \in positions : r.ticker = scan.ticker /\ r.status = "CLOSED"

\* C5 as stated: a delivered BET results, from every prior ledger state, in
\* exactly one new OPEN position for the ticker (entry price = yes-ask,
\* entry edge = edge%) and exactly one CLV row for the ticker.
C5_Original ==
    [][(ScanStep /\ scan'.sent) =>
         LET m == markets[idx]
             new == positions' \ positions
         IN  /\ Cardinality(new) = 1
             /\ \A r \in new :
                  /\ r.ticker = m.ticker
                  /\ r.status = "OPEN"
                  /\ r.entry_price = m.yes_ask
                  /\ r.entry_edge =
                       dg_probs[m.golfer_name][MARKET_TYPE_TO_DG_KEY(m.market_type)]
                       - m.yes_ask
             /\ Cardinality(RowsOf(clv_tracking', m.ticker)) = 1
      ]_vars

\* C5, amended: a delivered BET creates exactly one new OPEN position for
\* the ticker (entry price = yes-ask, entry edge = edge%) when the ticker has
\* no position row yet, and otherwise leaves the positions table unchanged;
\* in both cases the ticker has exactly one CLV row afterwards.
C5_DeliveredBetOpensOnce ==
    [][(ScanStep /\ scan'.sent) =>
         LET m == markets[idx]
             new == positions' \ positions
         IN  /\ positions \subseteq positions'
             /\ IF RowsOf(positions, m.ticker) = {}
                THEN /\ Cardinality(new) = 1
                     /\ \A r \in new :
                          /\ r.ticker = m.ticker
                          /\ r.status = "OPEN"
                          /\ r.entry_price = m.yes_ask
                          /\ r.entry_edge =
                               dg_probs[m.golfer_name]
                                       [MARKET_TYPE_TO_DG_KEY(m.market_type)]
                               - m.yes_ask
                ELSE new = {}
             /\ Cardinality(RowsOf(clv_tracking', m.ticker)) = 1
      ]_vars

\* a delivered BET has just opened the position and stored the CLV row
C5_Witness ==
    /\ pc = "scan"
    /\ scan.sent
    /\ \E r \in positions :
         /\ r.ticker = scan.ticker
         /\ r.status = "OPEN"
         /\ r.entry_edge = scan.edge
         /\ r.entry_price = markets[idx - 1].yes_ask
    /\ \E c \in clv_tracking : c.ticker = scan.ticker

\* C6: a position row or a CLV row is created only by a loop iteration
\* whose verdict was BET and whose alert was delivered, and only for the
\* ticker of that iteration.
C6_RowsOnlyOnDeliveredBet ==
    [][\A t \in Tickers :
         ( \/ Cardinality(RowsOf(positions', t)) > Cardinality(RowsOf(positions, t))
           \/ Cardinality(RowsOf(clv_tracking', t)) >
                Cardinality(RowsOf(clv_tracking, t)) ) =>
           /\ ScanStep
           /\ scan'.ticker = t
           /\ scan'.decision = "BET"
           /\ scan'.sent
      ]_vars

\* a BET whose alert was not delivered left the ticker without any row
C6_Witness ==
    /\ pc = "scan"
    /\ scan.outcome = "evaluated"
    /\ scan.decision = "BET"
    /\ ~scan.sent
    /\ RowsOf(positions, scan.ticker) = {}
    /\ RowsOf(clv_tracking, scan.ticker) = {}

\* C7: in the position check, an OPEN position whose market is among the
\* discovered markets is closed at the current yes-bid if and only if it is
\* a winner position and (yes-bid >= entry price + 15 or edge <= -8);
\* otherwise it stays as it is.
C7_ExitIffTrigger ==
    [][CheckStep =>
         \A r \in get_open_positions(positions) :
           r.ticker \in MarketTickers =>
             LET m == MarketByTicker(r.ticker)
                 edge == IF r.player_name \in DOMAIN dg_probs
                         THEN DgGet(dg_probs[r.player_name], "win") - m.yes_ask
                         ELSE 0
                 trigger == /\ r.market_type = "winner"
                            /\ \/ m.yes_bid >= r.entry_price + 15
                               \/ edge <= -8
             IN  IF trigger
                 THEN [r EXCEPT !.status = "CLOSED",
                                !.exit_price = m.yes_bid,
                                !.exit_timestamp = now,
                                !.profit_loss = m.yes_bid - r.entry_price]
                        \in positions'
                 ELSE r \in positions'
      ]_vars

\* a position check closed a position exactly at the profit target
C7_Witness ==
    /\ pc = "idle"
    /\ result.positions_checked # NULL
    /\ result.positions_checked > 0
    /\ \E r \in positions :
         r.status = "CLOSED" /\ r.exit_price = r.entry_price + 15

\* C8 as stated: the position check queries the terminal status of every
\* OPEN position whose ticker is absent from the discovered markets,
\* whatever its market type, and closes it if the market is settled.
C8_Original ==
    [][CheckStep =>
         \A r \in get_open_positions(positions) :
           r.ticker \notin MarketTickers =>
             /\ r.ticker \in DOMAIN requests'
             /\ (requests'[r.ticker] = "ok" /\ exchange[r.ticker].status = "settled")
                  => OpenRowsOf(positions', r.ticker) = {}
      ]_vars

\* C9 as stated: an OPEN position whose market has been settled is
\* eventually CLOSED, when cycles keep running and lookups eventually succeed.
C9_Original ==
    \A t \in Tickers :
      (OpenRowsOf(positions, t) # {} /\ exchange[t].status = "settled")
        ~> (OpenRowsOf(positions, t) = {})

\* C10 as stated: every cycle, whatever the feeds return, runs the position
\* check over the positions that are OPEN.
C10_Original ==
    (/\ pc = "idle"
     /\ result.timestamp # NULL
     /\ get_open_positions(positions) # {})
      => result.positions_checked # NULL

----------------------------------------------------------------------------
(* Properties of the reconciliation                                        *)

\* a step on which run_cycle returns a fresh CycleResult
ReturnStep == pc' = "idle" /\ ~cycle_error' /\ result' # result

\* C11 as stated: a failed settlement lookup leaves the position OPEN and
\* unchanged, every other open position is checked as if nothing had failed
\* and the cycle completes; and the cycle that follows attempts the lookup
\* again for the position that is still OPEN.
C11_Original ==
    [][/\ CheckStep =>
            LET open == get_open_positions(positions)
                failed == {t \in DOMAIN requests' : requests'[t] = "error"}
            IN  /\ \A t \in failed :
                     /\ RowsOf(positions', t) = RowsOf(positions, t)
                     /\ OpenRowsOf(positions', t) # {}
                /\ \A r \in open :
                     r.ticker \notin failed =>
                       RowsOf(positions', r.ticker) =
                         RowsOf(CheckLoop(positions, open, {}, now), r.ticker)
                /\ result'.positions_checked = Cardinality(open)
       /\ \A t \in DOMAIN requests :
            (/\ requests[t] = "error"
             /\ OpenRowsOf(positions, t) # {}
             /\ ReturnStep) => t \in DOMAIN requests'
      ]_vars


\* C12 as stated: the reconciliation closes a position only when its market
\* is settled with a result, at exit price 100 exactly when the result is
\* yes and 0 exactly when it is no; a market without a settlement result
\* never causes a close.
C12_Original ==
    [][CheckStep =>
         \A r \in get_open_positions(positions) :
           (r.ticker \in DOMAIN requests' /\ OpenRowsOf(positions', r.ticker) = {}) =>
             /\ exchange[r.ticker].status = "settled"
             /\ exchange[r.ticker].result \in {"yes", "no"}
             /\ \A c \in RowsOf(positions', r.ticker) :
                  /\ c.exit_price = 100 <=> exchange[r.ticker].result = "yes"
                  /\ c.exit_price = 0 <=> exchange[r.ticker].result = "no"
      ]_vars


----------------------------------------------------------------------------
(* Properties of the polling loop                                          *)

\* a step on which a call of the cycle raises into main's except clause
ErrorStep == CycleRaises \/ \E lb \in LbContexts : ScanMarketRaises(lb)

\* a step on which main's loop calls run_cycle
StartStep ==
    /\ pc = "idle"
    /\ \/ pc' = "scan"
       \/ result' # result
       \/ cycle_error' # cycle_error
       \/ interval' # interval

\* C13: an error raised by any step of a cycle is caught, the loop goes on
\* to its sleep with the poll interval as the retry interval, and run_cycle
\* is called again and again however many cycles fail.
C13_LoopSurvivesErrors ==
    /\ [][ErrorStep => (pc' = "idle" /\ interval' = POLL_INTERVAL_SEC)]_vars
    /\ []<><<StartStep>>_vars

\* a loop iteration raised after it had logged an opportunity, and the loop
\* is at its sleep with the poll interval
C13_Witness ==
    /\ cycle_error
    /\ pc = "idle"
    /\ interval = POLL_INTERVAL_SEC
    /\ \E o \in opportunities : \A d \in decisions : d.opportunity_id # o.id


----------------------------------------------------------------------------
(* Properties of the stored tables                                         *)

DecisionsOf(o) == {d \in decisions : d.opportunity_id = o.id}

\* C14: between cycles, after a cycle that returned and after one that
\* raised, every stored opportunity has exactly one decision referencing it.
C14_Original ==
    pc = "idle" => \A o \in opportunities : Cardinality(DecisionsOf(o)) = 1


\* opportunities of ticker t that carry a BET decision
BetOpportunities(t) ==
    {o \in opportunities :
        /\ o.market_ticker = t
        /\ \E d \in DecisionsOf(o) : d.decision = "BET"}

\* C15: every decision references a stored opportunity, and a position
\* exists for a ticker only if an opportunity for that ticker with a BET
\* decision is stored.
C15_RowsReferenceOpportunities ==
    /\ \A d \in decisions : \E o \in opportunities : o.id = d.opportunity_id
    /\ \A p \in positions : BetOpportunities(p.ticker) # {}

\* a position stands next to its BET opportunity while another opportunity
\* was decided otherwise and has no position
C15_Witness ==
    /\ \E p \in positions : BetOpportunities(p.ticker) # {}
    /\ \E o \in opportunities :
         /\ BetOpportunities(o.market_ticker) = {}
         /\ DecisionsOf(o) # {}
         /\ RowsOf(positions, o.market_ticker) = {}


OutcomesOf(o) == {x \in outcomes : x.opportunity_id = o.id}

\* C16: after any sequence of log_outcome calls, every opportunity has at
\* most one outcome row.
C16_Original ==
    \A o \in opportunities : Cardinality(OutcomesOf(o)) <= 1


\* C17: an opportunity and its decision are stored with the phase of the
\* cycle that generated them, never an empty one, and the stored phase of a
\* row is never changed afterwards.
C17_Original ==
    [][/\ \A o \in opportunities' \ opportunities :
            o.betting_phase = PhaseOf(round_num)
       /\ \A d \in decisions' \ decisions :
            d.betting_phase = PhaseOf(round_num)
       /\ \A o \in opportunities :
            \E q \in opportunities' :
              q.id = o.id /\ q.betting_phase = o.betting_phase
       /\ \A d \in decisions :
            \E q \in decisions' :
              q.id = d.id /\ q.betting_phase = d.betting_phase
      ]_vars


----------------------------------------------------------------------------
(* Properties of the stake sizing                                          *)

NoStake == Float(Rat(0, 1), 0)
StakeCap == Float(MAX_STAKE_PCT, 0)

\* p and p2 in percent, the ask in cents: the ask is valid and both
\* probabilities lie strictly between breakeven and 1
AboveBreakeven ==
    /\ calc.stage = "sized"
    /\ calc.price > 0 /\ calc.price < 100
    /\ calc.price < calc.p /\ calc.p < calc.p2 /\ calc.p2 < 100

\* C18: kelly_stake is 0 on invalid inputs (price <= 0 or >= 100 cents,
\* p <= 0 or p >= 1) and at or below breakeven (p <= price/100), and its
\* result always lies in [0, max_stake_pct].
C18_Original ==
    calc.stage = "sized" =>
      /\ (\/ calc.price <= 0 \/ calc.price >= 100
          \/ calc.p <= 0 \/ calc.p >= 100) => calc.stake = NoStake
      /\ calc.p <= calc.price => calc.stake = NoStake
      /\ ~FLess(calc.stake, NoStake)
      /\ ~FLess(StakeCap, calc.stake)

About(x, y, tol) == ~RLess(tol, RSub(x, y)) /\ ~RLess(tol, RSub(y, x))

\* the winner market of the worked example: model probability 0.30, ask 18,
\* bid 13, modal round 4, sized
WorkedExample ==
    /\ calc.stage = "sized"
    /\ calc.p = 30 /\ calc.price = 18 /\ calc.bid = 13 /\ calc.round = 4

\* f* of a stake below the cap: stake = f* x kelly_fraction
FStarOf(stake) == RDiv(stake.r, KELLY_FRACTION)

\* C20 as stated: the edge is 12.0, the market passes the round-adjusted
\* threshold and the spread filter, and the stake is about 3.53% of
\* bankroll, with f* about 0.1413, below the 5% cap.
C20_Original ==
    WorkedExample =>
      /\ calc.edge_pct = 12
      /\ calc.outcome = "evaluated"
      /\ About(calc.kelly_rec.stake_pct, Rat(353, 100), Rat(1, 100))
      /\ About(FStarOf(calc.stake), Rat(1413, 10000), Rat(1, 10000))
      /\ FLess(calc.stake, StakeCap)

\* C20: the edge is 12.0, the market passes the round-adjusted threshold and
\* the spread filter, and the stake is 3.66% of bankroll, with f* about
\* 0.1463 (12/82), below the 5% cap.
C20_WorkedExample ==
    WorkedExample =>
      /\ calc.edge_pct = 12
      /\ ~EdgeTooLow(calc.edge_pct, calc.round)
      /\ calc.price - calc.bid <= MAX_SPREAD
      /\ calc.outcome = "evaluated"
      /\ calc.kelly_rec.stake_pct = Rat(366, 100)
      /\ calc.kelly_rec.is_positive_ev
      /\ FStarOf(calc.stake) = Rat(12, 82)
      /\ About(FStarOf(calc.stake), Rat(1463, 10000), Rat(1, 10000))
      /\ FLess(calc.stake, StakeCap)

C20_Witness == WorkedExample /\ calc.outcome = "evaluated"


----------------------------------------------------------------------------
(* Properties of the round-adjusted threshold                              *)

\* the multipliers of rounds 1..4 as the statement lists them, in hundredths
StatedMultiplier(r) ==
    CASE r = 1 -> 70 [] r = 2 -> 85 [] r = 3 -> 100 [] r = 4 -> 115

\* C21: for every round r of 1..4 the threshold is base / multiplier(r) with
\* the multipliers 0.70, 0.85, 1.00, 1.15, and for a positive base the
\* threshold of a later round is strictly lower.
C21_MinEdgeDecreases ==
    (calc.stage = "threshold" /\ calc.round \in 1..4) =>
      /\ RMul(calc.min_edge, Rat(StatedMultiplier(calc.round), 100)) =
           Rat(calc.base, 10)
      /\ (/\ calc.round2 \in 1..4
          /\ calc.round < calc.round2
          /\ calc.base > 0) => RLess(calc.min_edge2, calc.min_edge)

\* the base 8.0 taken in round 1 and round 4: 11.43 and 6.96
C21_Witness ==
    /\ calc.stage = "threshold"
    /\ calc.base = 80 /\ calc.round = 1 /\ calc.round2 = 4
    /\ calc.min_edge = Rat(80, 7)
    /\ calc.min_edge2 = Rat(160, 23)

----------------------------------------------------------------------------
(* Properties of the edge validation                                       *)

\* 100 x the consensus edge times the number of books: the model
\* probability minus the mean of the book probabilities, cleared of the
\* division
ConsensusEdgeSign(p, bm) ==
    p * Cardinality(DOMAIN bm) - SumOver(bm, DOMAIN bm)

\* the tier the statement's rules give, the first matching rule winning
StatedTier(p, k, bm) ==
    IF DOMAIN bm = {} THEN "medium"
    ELSE IF "pinnacle" \in DOMAIN bm /\ p - bm["pinnacle"] >= 3 /\ p - k >= 8
         THEN "high"
    ELSE IF "pinnacle" \in DOMAIN bm /\ p - bm["pinnacle"] < 0 THEN "low"
    ELSE IF ConsensusEdgeSign(p, bm) < 0 THEN "low"
    ELSE "medium"

\* C22: validate_edge gives the tier of the first matching rule: no books,
\* medium; reference-book edge >= 3 and market edge >= 8, high;
\* reference-book edge < 0, low; consensus edge < 0, low; otherwise medium.
C22_TierByFirstRule ==
    calc.stage = "validated" =>
      calc.validation.confidence =
        StatedTier(calc.dg_prob, calc.kalshi_implied, calc.book_odds)

\* a reference-book edge of 10 and a market edge of 8 give high although the
\* consensus edge is negative: the earlier rule wins
C22_Witness ==
    /\ calc.stage = "validated"
    /\ calc.validation.confidence = "high"
    /\ calc.validation.edge_vs_pinnacle = Rat(10, 1)
    /\ calc.validation.edge_vs_kalshi = Rat(8, 1)
    /\ calc.validation.edge_vs_consensus.num < 0

----------------------------------------------------------------------------
(* Properties of the phase detection                                       *)

\* r is a most frequent round of the leaderboard
IsModalRound(lb, r) ==
    /\ \E n \in DOMAIN lb : lb[n].round_number = r
    /\ \A q \in {lb[n].round_number : n \in DOMAIN lb} :
         RoundCount(lb, q) <= RoundCount(lb, r)

\* the phase the statement's rules give for the modal round m
StatedPhase(lb, m) ==
    IF /\ m >= 4
       /\ \A n \in DOMAIN lb :
            lb[n].round_number >= 3 =>
              (lb[n].round_number >= 4 /\ lb[n].thru >= 18)
    THEN "FINISHED"
    ELSE IF \E n \in DOMAIN lb : 0 < lb[n].thru /\ lb[n].thru < 18
    THEN "LIVE_ROUND"
    ELSE IF \A n \in DOMAIN lb : lb[n].round_number = m => lb[n].thru >= 18
    THEN "BETWEEN_ROUNDS"
    ELSE "LIVE_ROUND"

LiveCase ==
    /\ calc.stage = "detected"
    /\ calc.live
    /\ DOMAIN calc.leaderboard # {}

\* C23: with live probabilities and a leaderboard, detect_phase reports a
\* modal round of the leaderboard and the phase of the first matching rule:
\* FINISHED, else LIVE_ROUND on a player in mid-round, else BETWEEN_ROUNDS
\* when the modal round is through 18 holes, else LIVE_ROUND.
C23_PhaseByPriority ==
    LiveCase =>
      /\ IsModalRound(calc.leaderboard, calc.state.round_num)
      /\ calc.state.phase =
           StatedPhase(calc.leaderboard, calc.state.round_num)

\* round 4 finished for two players while a third, who missed the cut, is
\* shown in mid-round of round 2: FINISHED wins over LIVE_ROUND
C23_Witness ==
    /\ LiveCase
    /\ calc.state.phase = "FINISHED"
    /\ calc.state.round_num = 4
    /\ \E n \in DOMAIN calc.leaderboard :
         /\ calc.leaderboard[n].round_number = 2
         /\ calc.leaderboard[n].thru = 9


\* C24: without live probabilities detect_phase returns PRE_TOURNAMENT when
\* the pre-tournament data holds at least one player, with or without the
\* tournament name, and IDLE when the data is absent, empty or holds the
\* tournament name only.
C24_Original ==
    (calc.stage = "detected" /\ ~calc.live) =>
      calc.state.phase =
        IF calc.pre.is_dict /\ calc.pre.players >= 1
        THEN "PRE_TOURNAMENT" ELSE "IDLE"


\* a step that changes the scheduler's state
SchedStep == sched' # sched

\* the countdown is waiting and the scan-now signal is raised
SignalledCountdown == sched.pc = "countdown" /\ sched.force_scan

\* C25: while the scheduler is in the countdown between two cycles, a raised
\* scan-now signal ends the countdown: the scheduler's next step leaves the
\* countdown with the remaining seconds uncounted, its step after that
\* starts the next cycle, and the next cycle does start
C25_SignalEndsCountdown ==
    /\ [][/\ (SignalledCountdown /\ SchedStep) =>
                /\ sched'.pc = "top"
                /\ ~sched'.force_scan
                /\ sched'.remaining = sched.remaining
                /\ sched'.next_cycle_countdown = 0
          /\ (sched.pc = "top" /\ sched'.pc # "top") =>
                /\ sched'.pc = "cycle"
                /\ sched'.remaining = sched.remaining]_vars
    /\ (SignalledCountdown ~> sched.pc = "cycle")

\* a cycle has started after a countdown that the signal cut short with
\* more than a second left
C25_Witness ==
    /\ sched.pc = "cycle"
    /\ sched.remaining > 1
    /\ ~sched.force_scan

\* C26: at most one cycle is in flight at any time, and a scan-now signal
\* raised while a cycle runs only sets the flag: the cycle stays in flight,
\* no second one starts, and the cycle ends by its own step alone
C26_OneCycleInFlight ==
    /\ [](sched.in_flight <= 1)
    /\ [](sched.in_flight = 1 <=> sched.pc = "cycle")
    /\ [][(sched.pc = "cycle" /\ ~sched.force_scan /\ sched'.force_scan) =>
             /\ sched'.pc = "cycle"
             /\ sched'.in_flight = 1
             /\ sched' = [sched EXCEPT !.force_scan = TRUE]]_vars
    /\ [][(sched.pc = "cycle" /\ sched'.pc # "cycle") =>
             /\ sched'.pc = "countdown"
             /\ sched'.in_flight = 0]_vars

\* the signal has been raised while a cycle is in flight
C26_Witness ==
    /\ sched.pc = "cycle"
    /\ sched.force_scan
    /\ sched.in_flight = 1


\* a step that returns from an aggregate read
ReadStep == calc'.stage = "read"

\* C27: every aggregate read (open-position listing, position stats,
\* accuracy stats, CLV stats, stats by phase, recommendation stats,
\* manual-position stats) leaves the six stored tables as they were, in
\* every ledger state
C27_ReadsLeaveTables ==
    [][ReadStep => UNCHANGED <<positions, clv_tracking, opportunities,
                               decisions, outcomes, manual_positions>>]_vars

\* a read has returned non-trivial statistics from a ledger whose tables all
\* hold rows, closed positions among them
C27_Witness ==
    /\ calc.stage = "read"
    /\ calc.fn = "get_position_stats"
    /\ calc.value.closed_count > 0
    /\ clv_tracking # {}
    /\ opportunities # {}
    /\ decisions # {}
    /\ outcomes # {}
    /\ manual_positions # {}


\* nothing the caches hold was fetched in an earlier cycle
FreshCache(c) ==
    /\ c.skill # "earlier"
    /\ \A k \in DOMAIN c.book_odds : c.book_odds[k] = "this"

\* C28: every call of run_cycle, one that follows a failed cycle included,
\* starts with empty caches: after its first step the book-odds cache is
\* empty and the skill data, if any, is of this cycle; the caches never hold
\* an entry of an earlier cycle; and the book odds the scanner gets for an
\* evaluated market were fetched in the same cycle
C28_CachesPerCycle ==
    /\ [](FreshCache(cache))
    /\ [][(pc = "idle" /\ (StartStep \/ cache' # cache)) =>
             /\ DOMAIN cache'.book_odds = {}
             /\ cache'.skill \in {"", "this"}]_vars
    /\ [][(ScanStep /\ scan'.outcome = "evaluated") =>
             /\ get_book_odds(cache, BookOddsKey(markets[idx])).served = "this"
             /\ BookOddsKey(markets[idx]) \in DOMAIN cache'.book_odds]_vars
    /\ [][(pc = "idle" /\ pc' = "scan") =>
             get_player_skill_breakdown(cache', TRUE).served = "this"]_vars

\* a market is evaluated with book odds in the cache, in a cycle after one
\* that failed when it had fetched the odds of the same market type
C28_Witness ==
    /\ pc = "scan"
    /\ scan.outcome = "evaluated"
    /\ BookOddsKey([market_type |-> MarketTypeOf(scan.ticker)])
           \in DOMAIN cache.book_odds
    /\ \E o \in opportunities :
          /\ o.market_ticker = scan.ticker
          /\ DecisionsOf(o) = {}


----------------------------------------------------------------------------
(* Properties of the scanner's filters                                     *)

\* the market of the iteration has a match in the feed and a positive model
\* probability for its type
Matched(m) ==
    /\ match_name(m.golfer_name, DOMAIN dg_probs) # NoMatch
    /\ MARKET_TYPE_TO_DG_KEY(m.market_type) # ""
    /\ DgGet(dg_probs[m.golfer_name], MARKET_TYPE_TO_DG_KEY(m.market_type)) > 0

\* edge% >= base_min_edge / multiplier(round), the multipliers in hundredths
EdgeTestPasses(m) ==
    EdgePct(m) * StatedMultiplier(round_num) >= MIN_EDGE_TO_EVALUATE * 100

SpreadTestPasses(m) == m.yes_ask - m.yes_bid <= MAX_SPREAD

\* the iteration stores nothing and asks no verdict
Excluded ==
    /\ UNCHANGED <<opportunities, decisions, positions, clv_tracking>>
    /\ scan'.decision = ""
    /\ ~scan'.sent

\* C29: a step that stores an Opportunity, or opens a Position, is an
\* iteration of the market loop on a matched market with implied probability
\* > 0, edge% >= base / multiplier(modal round) and spread <= the cap, and
\* the Position comes with an Opportunity; a matched market that fails the
\* edge test is excluded, with skip reason edge_too_low if its edge is
\* positive and none otherwise; one that passes it and fails the spread
\* test is excluded with skip reason spread_too_wide
C29_PersistedPassedFilters ==
    /\ [][(opportunities' # opportunities) =>
             /\ pc = "scan" /\ idx \in DOMAIN markets
             /\ Matched(markets[idx])
             /\ markets[idx].yes_ask > 0
             /\ EdgeTestPasses(markets[idx])
             /\ SpreadTestPasses(markets[idx])
             /\ \E o \in opportunities' \ opportunities :
                   o.market_ticker = markets[idx].ticker]_vars
    /\ [][(\E p \in positions' : p.id \notin {r.id : r \in positions}) =>
             /\ opportunities' # opportunities
             /\ \A p \in positions' :
                   p.id \notin {r.id : r \in positions} =>
                      p.ticker = markets[idx].ticker]_vars
    /\ [][(/\ ScanStep
           /\ Matched(markets[idx])
           /\ markets[idx].yes_ask > 0
           /\ ~EdgeTestPasses(markets[idx])) =>
             /\ Excluded
             /\ scan'.skipped = IF EdgePct(markets[idx]) > 0
                                THEN "edge_too_low" ELSE ""]_vars
    /\ [][(/\ ScanStep
           /\ Matched(markets[idx])
           /\ markets[idx].yes_ask > 0
           /\ EdgeTestPasses(markets[idx])
           /\ ~SpreadTestPasses(markets[idx])) =>
             /\ Excluded
             /\ scan'.skipped = "spread_too_wide"]_vars

\* with an Opportunity stored, the loop has skipped a market whose positive
\* edge is below the threshold of the round
C29_Witness ==
    /\ pc = "scan"
    /\ opportunities # {}
    /\ scan.skipped = "edge_too_low"


\* the market passed the filters that come before the stale-price check
PassedEdgeAndSpread(m) ==
    /\ Matched(m)
    /\ m.yes_ask > 0
    /\ EdgeTestPasses(m)
    /\ SpreadTestPasses(m)

\* the stated condition: round >= 3, a top-N type, the position within N,
\* the ask below 70
StatedStale(lb, m) ==
    /\ lb.present
    /\ lb.round_number >= 3
    /\ m.market_type \in {"top5", "top10", "top20"}
    /\ lb.position <= (CASE m.market_type = "top5"  -> 5
                         [] m.market_type = "top10" -> 10
                         [] m.market_type = "top20" -> 20)
    /\ m.yes_ask < 70

\* C30: an iteration of the market loop on a market that passed the edge and
\* spread filters, with leaderboard context lb, skips it with reason
\* stale_price and stores nothing exactly when lb shows round >= 3, the type
\* is top5, top10 or top20, the position is within the type's threshold and
\* the ask is below 70; otherwise it stores an Opportunity; winner and
\* make_cut markets and players without context are never skipped as stale
C30_StaleExactlyWhen ==
    [][(ScanStep /\ PassedEdgeAndSpread(markets[idx])) =>
         \A lb \in BoardLbContexts :
            (/\ scan'.outcome = Filter(markets[idx], lb)
             /\ \E a \in AnswersNow : ScanMarket(lb, a[1], a[2])) =>
               /\ scan'.skipped = "stale_price" <=>
                     StatedStale(lb, markets[idx])
               /\ StatedStale(lb, markets[idx]) =>
                    /\ UNCHANGED <<opportunities, decisions, positions,
                                   clv_tracking>>
                    /\ scan'.decision = ""
               /\ ~StatedStale(lb, markets[idx]) =>
                    \E o \in opportunities' \ opportunities :
                       o.market_ticker = markets[idx].ticker
               /\ (\/ markets[idx].market_type \in {"winner", "make_cut"}
                   \/ ~lb.present) => scan'.skipped # "stale_price"]_vars

\* a top20 market asked at 69 was skipped as stale, with an Opportunity of
\* another market in the table
C30_Witness ==
    /\ pc = "scan"
    /\ scan.skipped = "stale_price"
    /\ scan.ticker = "T4"
    /\ markets[1].yes_ask = 69
    /\ opportunities # {}

----------------------------------------------------------------------------
(* Properties of the phase detection with live probabilities               *)

\* none of the rules FINISHED, LIVE_ROUND on a player in mid-round and
\* BETWEEN_ROUNDS applies to a leaderboard with entries whose modal round is m
NoRuleApplies(lb, m) ==
    /\ DOMAIN lb # {}
    /\ ~(/\ m >= 4
         /\ \A n \in DOMAIN lb :
              lb[n].round_number >= 3 =>
                (lb[n].round_number >= 4 /\ lb[n].thru >= 18))
    /\ ~\E n \in DOMAIN lb : 0 < lb[n].thru /\ lb[n].thru < 18
    /\ ~\A n \in DOMAIN lb : lb[n].round_number = m => lb[n].thru >= 18

\* C31: with non-empty live probabilities detect_phase returns FINISHED,
\* LIVE_ROUND or BETWEEN_ROUNDS for every leaderboard, the empty one
\* included, never PRE_TOURNAMENT or IDLE, and returns LIVE_ROUND when none
\* of the other rules applies.
C31_Original ==
    (calc.stage = "detected" /\ calc.live) =>
      /\ calc.state.phase \in {"FINISHED", "LIVE_ROUND", "BETWEEN_ROUNDS"}
      /\ NoRuleApplies(calc.leaderboard, calc.state.round_num) =>
           calc.state.phase = "LIVE_ROUND"

----------------------------------------------------------------------------
(* Properties of the interval between cycles                               *)

\* a cycle of main's loop has returned without an error
CycleCompleted == pc = "idle" /\ result.timestamp # NULL /\ ~cycle_error

----------------------------------------------------------------------------
(* Properties of the evaluation of an opportunity                          *)

Evaluated == calc.stage = "evaluated"

\* the transport failed or the reply could not be parsed
TransportOrParseFailure(resp) ==
    \/ resp.transport = "failed"
    \/ resp.content # "text"
    \/ resp.text # "object"
    \/ resp.decision \notin Verdicts
    \/ resp.confidence = "word"

\* the deterministic fallback of the statement
StatedFallback(edge_pct) ==
    IF Abs(edge_pct) >= 15
    THEN [decision |-> "BET", confidence |-> Rat(1, 2), stake |-> Rat(1, 1)]
    ELSE [decision |-> "WATCH"]

\* C33: for every response of the transport evaluate_opportunity returns a
\* verdict in {BET, PASS, WATCH} without raising, and on a transport or parse
\* failure the verdict is the fallback: BET with confidence 0.5 and stake 1%
\* when |edge%| >= 15, otherwise WATCH.
C33_Original ==
    Evaluated =>
      /\ calc.eval_result.raised = ""
      /\ calc.eval_result.decision \in Verdicts
      /\ TransportOrParseFailure(calc.resp) =>
           LET f == StatedFallback(calc.edge_pct)
           IN  /\ calc.eval_result.decision = f.decision
               /\ f.decision = "BET" =>
                    /\ calc.eval_result.confidence = f.confidence
                    /\ calc.eval_result.suggested_stake_pct = f.stake


\* evaluate_opportunity took the verdict from the agent's reply
ReplyAccepted ==
    /\ Evaluated
    /\ calc.eval_result.raised = ""
    /\ ~TransportOrParseFailure(calc.resp)

\* the stake the agent's reply suggests, 0 when it suggests none
AgentSuggestion(resp) == IF resp.stake = "number" THEN ReplyStake ELSE Zero

\* the stake of the returned verdict is the one recorded in the Decision
StakeRecorded ==
    \A d \in calc.logged :
       d.suggested_stake_pct = calc.eval_result.suggested_stake_pct

----------------------------------------------------------------------------
(* Properties of the market discovery                                      *)

\* the series the discovery is at was requested and the response was r
RequestStep(r) ==
    /\ calc.stage = "discover"
    /\ calc'.requested[calc.series] = calc.requested[calc.series] + 1
    /\ calc'.last = r

\* the discovery asks the same series again
AsksAgain == calc'.series = calc.series /\ calc'.stage = "discover"

\* the discovery is done with the series: it goes on to the next one, or
\* returns after the last
LeavesSeries ==
    IF calc.series = Len(GOLF_SERIES) THEN calc'.stage = "returned"
    ELSE calc'.series = calc.series + 1 /\ calc'.stage = "discover"

\* C35: in one market discovery each series is requested at most 3 times; a
\* request is repeated only after an HTTP 429, after a wait that doubles from
\* attempt to attempt; once the 3 attempts are used up or another error
\* occurs the series is left without markets, and the remaining series are
\* still queried and their markets returned.
C35_BoundedRetries ==
    /\ [](calc.stage \in {"discover", "returned"} =>
            /\ \A i \in DOMAIN GOLF_SERIES : calc.requested[i] <= 3
            /\ calc.stage = "returned" =>
                 /\ \A i \in DOMAIN GOLF_SERIES : calc.requested[i] >= 1
                 /\ {calc.markets[k] : k \in DOMAIN calc.markets} =
                      {GOLF_SERIES[i] :
                         i \in DOMAIN GOLF_SERIES \ calc.no_data})
    /\ [][\A r \in EventResponses : RequestStep(r) =>
            LET i    == calc.series
                used == calc.requested[i] + 1
            IN  /\ AsksAgain <=> (r = "429" /\ used < 3)
                /\ ~AsksAgain => LeavesSeries
                /\ AsksAgain =>
                     calc'.wait = IF used = 1 THEN 1 ELSE 2 * calc.wait
                /\ (r # "listed" /\ ~AsksAgain) <=> i \in calc'.no_data
                /\ IF r = "listed"
                   THEN calc'.markets = Append(calc.markets, GOLF_SERIES[i])
                   ELSE calc'.markets = calc.markets]_vars

\* the discovery returned the markets of the last series after three 429
\* responses on the first and an HTTP error on the second
C35_Witness ==
    /\ calc.stage = "returned"
    /\ calc.requested[1] = 3
    /\ calc.requested[2] = 1
    /\ calc.no_data = {1, 2}
    /\ calc.last = "listed"
    /\ Len(calc.markets) = 4

----------------------------------------------------------------------------
(* Properties of a cycle without live probabilities                        *)

\* the live feed failed or gave no players
FeedFailsOrEmpty ==
    calc.payload \in {"request_failed", "empty", "no_list", "scalar",
                      "nameless"}

\* a call of run_cycle returns or raises
CycleEnds ==
    /\ pc = "idle"
    /\ pc' = "idle"
    /\ result' # result \/ cycle_error'
    /\ calc' = calc

\* C36: a cycle in which the live-probability feed fails or returns no
\* players completes without raising, reports tournament_active = false and
\* creates no Opportunity, Decision, Position or CLV record.
C36_Original ==
    [][(CycleEnds /\ FeedFailsOrEmpty) =>
         /\ ~cycle_error'
         /\ result'.timestamp # NULL
         /\ ~result'.tournament_active
         /\ UNCHANGED <<opportunities, decisions, positions,
                        clv_tracking>>]_vars

----------------------------------------------------------------------------
(* Properties of the positions and CLV tables taken together               *)

\* C37: after any sequence of cycles a ticker has a row in positions if and
\* only if it has a row in clv_tracking, one row in each, and the CLV row's
\* entry price is the position's entry price: the two rows are inserted
\* together and neither insert changes a row that is there.
C37_PositionAndClvRowsAgree ==
    \A t \in Tickers :
       /\ RowsOf(positions, t) # {} <=> RowsOf(clv_tracking, t) # {}
       /\ Cardinality(RowsOf(positions, t)) <= 1
       /\ Cardinality(RowsOf(clv_tracking, t)) <= 1
       /\ \A p \in RowsOf(positions, t), c \in RowsOf(clv_tracking, t) :
             c.entry_price = p.entry_price

\* a BET on T1 at 30 cents was delivered while both tables hold the rows of
\* an entry at 10 cents
C37_Witness ==
    /\ scan.ticker = "T1"
    /\ scan.decision = "BET"
    /\ scan.sent
    /\ pc = "scan"
    /\ markets[idx - 1].yes_ask = 30
    /\ \E p \in RowsOf(positions, "T1") : p.entry_price = 10
    /\ \E c \in RowsOf(clv_tracking, "T1") : c.entry_price = 10


\* the step is a recommendation for ticker t made while the model is the
\* alert model
Recommended(t) == calc.stage = "alert" /\ calc'.stage = "alert" /\ calc'.ticker = t

\* C38: once Telegram has accepted a recommendation alert for a ticker, no
\* further alert for that ticker is posted, send_alert returns False and no
\* position or entry row is written for it until ALERT_COOLDOWN_MIN minutes
\* have passed since that delivery; an attempt that is not delivered leaves
\* the stored cooldowns as they were
C38_CooldownBetweenDeliveries ==
    [][\A t \in Tickers : Recommended(t) =>
          /\ (t \in DOMAIN calc.last
              /\ calc.clock - calc.last[t] < ALERT_COOLDOWN_MIN)
                => /\ ~calc'.posted
                   /\ ~calc'.sent
          /\ ~calc'.sent
                => /\ calc'._alert_cooldowns = calc._alert_cooldowns
                   /\ positions' = positions
                   /\ clv_tracking' = clv_tracking
          /\ calc'.sent => calc'._alert_cooldowns[t] = calc.clock]_vars

\* a recommendation was refused during the cooldown of an earlier delivery
\* for its ticker
C38_Witness ==
    /\ calc.stage = "alert"
    /\ calc.ticker \in Tickers
    /\ ~calc.posted
    /\ calc.ticker \in DOMAIN calc.last
    /\ calc.clock - calc.last[calc.ticker] < ALERT_COOLDOWN_MIN
    /\ calc.clock > calc.last[calc.ticker]


\* the step with which the cycle ends and the countdown begins
CountdownBegins == sched.pc = "cycle" /\ sched'.pc = "countdown"

\* the step with which the countdown ends
CountdownEnds == sched.pc = "countdown" /\ sched'.pc = "top"

\* C39: a scan-now signal raised while a cycle is in flight is cleared when
\* the following countdown begins, and the countdown begins at its full
\* interval; within the countdown the signal is set only by being raised
\* again, and the countdown ends before its last second only on a set signal
C39_InFlightSignalDiscarded ==
    /\ [][CountdownBegins =>
             /\ ~sched'.force_scan
             /\ sched'.discarded = sched.force_scan
             /\ sched'.remaining = POLL_INTERVAL_LIVE_SEC
             /\ sched'.next_cycle_countdown = POLL_INTERVAL_LIVE_SEC]_vars
    /\ [][(sched.pc = "countdown" /\ ~sched.force_scan /\ sched'.force_scan) =>
             sched' = [sched EXCEPT !.force_scan = TRUE]]_vars
    /\ [][(CountdownEnds /\ ~sched.force_scan) => sched.remaining = 1]_vars
    /\ [][(sched.pc = "countdown" /\ ~sched.force_scan /\ sched.remaining > 1
           /\ sched'.pc = "countdown" /\ sched'.remaining # sched.remaining) =>
             sched'.remaining = sched.remaining - 1]_vars

\* a countdown that began by discarding a signal raised during the cycle has
\* reached its last second
C39_Witness ==
    /\ sched.pc = "countdown"
    /\ sched.discarded
    /\ sched.remaining = 1
    /\ ~sched.force_scan


\* the positions the running cycle has opened
OpenedThisCycle ==
    {p \in positions : pc = "scan" /\ p.entry_timestamp = now}

\* the step is the exit check that ends a cycle
ExitCheckStep == pc = "scan" /\ idx > Len(markets) /\ pc' = "idle"

=============================================================================
